---------------------------- MODULE Spec2Model ----------------------------
(***************************************************************************)
(* Model of the contact-table extractor of document_converter_fixed.py:    *)
(* is_person_name, is_contact_table and extract_contact_table.             *)
(*                                                                         *)
(* Python strings are TLA+ strings (TLC treats a string as a sequence of   *)
(* one-character strings: Len, SubSeq and \o apply).  Python lists are     *)
(* sequences.  Python's 0-based indices are kept in every value the code   *)
(* computes (header_row_index, start_row, the column index i); a sequence  *)
(* is read at index + 1.                                                   *)
(***************************************************************************)
EXTENDS Integers, Sequences, FiniteSets, TLC

VARIABLES
    text,        \* argument of the is_person_name call under test
    nameResult,  \* its return value ("none" before the call)
    table,       \* table_data: a sequence of rows, each a sequence of cells
    pc,          \* position of the caller: "input", then "named", or
                 \* "classified" and then "extracted"
    isContact,   \* return value of is_contact_table(table) ("none" before)
    out,         \* outcome of extract_contact_table(table) (NoOutcome before)
    calls,       \* the frames of the calls of extract_contact_table that run
                 \* side by side (none but in SpecCalls)
    doc,         \* the blocks of the document under scan, in document order
    structure,   \* what extract_fixed_document_structure(doc) returned
    all_tables,  \* what extract_all_tables_with_context(doc) returned
    bft_sections,\* current_section of extract_bft_cft_from_document at each
                 \* table of doc
    plan,        \* plan_data: the sections of one plan, in insertion order
    analysis,    \* what analyze_table_content returned for its table_info
    bcp_data,    \* the plans of bcp-data-final.json, per line of business
    results,     \* self.results: the extracted contacts per line of business
    runs,        \* how often create_structured_bcp_data has run on bcp_data
    bft_content, \* bft_content of main: the content made for the team sections
    returned     \* what add_bft_to_business_line(plan, bft_content) returned
                 \* ("none" before the call)

vars == <<text, nameResult, table, pc, isContact, out, calls,
          doc, structure, all_tables, bft_sections, plan, analysis,
                   bcp_data, results, runs, bft_content, returned>>

(***************************************************************************)
(* Characters and the str methods the code uses.                           *)
(***************************************************************************)
UpperChars == {"A","B","C","D","E","F","G","H","I","J","K","L","M",
               "N","O","P","Q","R","S","T","U","V","W","X","Y","Z"}

LowerChars == {"a","b","c","d","e","f","g","h","i","j","k","l","m",
               "n","o","p","q","r","s","t","u","v","w","x","y","z"}

DigitChars == {"0","1","2","3","4","5","6","7","8","9"}

\* what str.strip, str.split and the regex class \s take for whitespace
WhitespaceChars == {" ", "\t", "\n", "\r"}

\* the regex class \w, which decides the word boundary \b
WordChars == UpperChars \cup LowerChars \cup DigitChars \cup {"_"}

LowerMap == [A |-> "a", B |-> "b", C |-> "c", D |-> "d", E |-> "e", F |-> "f",
             G |-> "g", H |-> "h", I |-> "i", J |-> "j", K |-> "k", L |-> "l",
             M |-> "m", N |-> "n", O |-> "o", P |-> "p", Q |-> "q", R |-> "r",
             S |-> "s", T |-> "t", U |-> "u", V |-> "v", W |-> "w", X |-> "x",
             Y |-> "y", Z |-> "z"]

\* s[i] for a 1-based i
Ch(s, i) == SubSeq(s, i, i)

RECURSIVE LowerFrom(_, _)
LowerFrom(s, i) ==
    IF i > Len(s) THEN ""
    ELSE (IF Ch(s, i) \in UpperChars THEN LowerMap[Ch(s, i)] ELSE Ch(s, i))
         \o LowerFrom(s, i + 1)

\* str.lower()
Lower(s) == LowerFrom(s, 1)

\* Python's `w in s` for strings
Contains(s, w) ==
    \E i \in 1..(Len(s) - Len(w) + 1) : SubSeq(s, i, i + Len(w) - 1) = w

\* any(c.isupper() for c in s)
HasUpper(s) == \E i \in 1..Len(s) : Ch(s, i) \in UpperChars

RECURSIVE FirstNonSpace(_, _)
FirstNonSpace(s, i) ==
    IF i > Len(s) THEN i
    ELSE IF Ch(s, i) \in WhitespaceChars THEN FirstNonSpace(s, i + 1) ELSE i

RECURSIVE LastNonSpace(_, _)
LastNonSpace(s, i) ==
    IF i < 1 THEN i
    ELSE IF Ch(s, i) \in WhitespaceChars THEN LastNonSpace(s, i - 1) ELSE i

\* str.strip()
Strip(s) == SubSeq(s, FirstNonSpace(s, 1), LastNonSpace(s, Len(s)))

RECURSIVE FirstSpace(_, _)
FirstSpace(s, i) ==
    IF i > Len(s) THEN i
    ELSE IF Ch(s, i) \in WhitespaceChars THEN i ELSE FirstSpace(s, i + 1)

RECURSIVE SplitFrom(_, _)
SplitFrom(s, i) ==
    LET b == FirstNonSpace(s, i)
        e == FirstSpace(s, b)
    IN  IF b > Len(s) THEN <<>>
        ELSE <<SubSeq(s, b, e - 1)>> \o SplitFrom(s, e)

\* str.split() with no argument: the maximal runs of non-whitespace
Split(s) == SplitFrom(s, 1)

RECURSIVE JoinFrom(_, _, _)
JoinFrom(row, sep, i) ==
    IF i > Len(row) THEN ""
    ELSE IF i = Len(row) THEN row[i]
    ELSE row[i] \o sep \o JoinFrom(row, sep, i + 1)

\* sep.join(row)
Join(row, sep) == JoinFrom(row, sep, 1)

(***************************************************************************)
(* is_person_name                                                          *)
(***************************************************************************)
non_person_words ==
    <<"return", "normal", "operations", "activate", "section", "page", "step",
      "procedure", "process", "system", "tool", "application", "recovery",
      "business", "continuity", "plan", "when", "if", "the", "this", "that",
      "contact", "engage", "determine", "communicate", "situation", "team",
      "activation", "equipment", "outage", "building", "location", "personnel">>

\* the character class of ^[A-Za-z\s\.\-\']+$
NameChars == UpperChars \cup LowerChars \cup WhitespaceChars \cup {".", "-", "'"}

\* re.match(r'^[A-Za-z\s\.\-\']+$', text)
MatchesNamePattern(s) ==
    /\ Len(s) >= 1
    /\ \A i \in 1..Len(s) : Ch(s, i) \in NameChars

\* variants: a name may have five words; a name may have 40 characters
MaxNameWordsFive == 4 + 1
MaxNameLenForty == 50 - 10

MinNameLen == 2
MaxNameLen == 50
MinNameWords == 2
MaxNameWords == 4
MinWordLen == 2
MaxWordLen == 20

is_person_name(t) ==
    LET text_lower == Lower(t) IN
    IF Len(t) < MinNameLen THEN FALSE
    ELSE IF \E k \in 1..Len(non_person_words) :
                Contains(text_lower, non_person_words[k]) THEN FALSE
    ELSE IF Len(t) > MaxNameLen THEN FALSE
    ELSE IF ~MatchesNamePattern(t) THEN FALSE
    ELSE IF ~HasUpper(t) THEN FALSE
    ELSE LET words == Split(t) IN
         IF Len(words) < MinNameWords \/ Len(words) > MaxNameWords THEN FALSE
         ELSE IF \E k \in 1..Len(words) :
                     Len(words[k]) < MinWordLen \/ Len(words[k]) > MaxWordLen
              THEN FALSE
         ELSE TRUE

(***************************************************************************)
(* The regular expressions of extract_contact_table.  Each pattern is a    *)
(* sequence of items: a character class repeated lo..hi times (greedy,     *)
(* with backtracking, as Python's re matches it) or the word boundary \b.  *)
(* None of the patterns has a group or an alternation.                     *)
(***************************************************************************)
Cls(set, lo, hi) == [k |-> "class", set |-> set, lo |-> lo, hi |-> hi]
WordBoundary == [k |-> "boundary", set |-> {}, lo |-> 0, hi |-> 0]

\* stands for the unbounded repetitions + and {2,}: no cell is that long
Unbounded == 1000

SepChars == {"-", "."} \cup WhitespaceChars                  \* [-.\s]
Digits(n) == Cls(DigitChars, n, n)                           \* \d{n}
OptSep == Cls(SepChars, 0, 1)                                \* [-.\s]?
Lit(c) == Cls({c}, 1, 1)

\* r'\b[A-Za-z0-9._%+-]+@[A-Za-z0-9.-]+\.[A-Z|a-z]{2,}\b'
email_pattern ==
    << WordBoundary,
       Cls(UpperChars \cup LowerChars \cup DigitChars \cup {".", "_", "%", "+", "-"},
           1, Unbounded),
       Lit("@"),
       Cls(UpperChars \cup LowerChars \cup DigitChars \cup {".", "-"}, 1, Unbounded),
       Lit("."),
       Cls(UpperChars \cup LowerChars \cup {"|"}, 2, Unbounded),
       WordBoundary >>

phone_patterns ==
    << \* r'\b\d{3}[-.\s]?\d{3}[-.\s]?\d{4}\b'
       << WordBoundary, Digits(3), OptSep, Digits(3), OptSep, Digits(4),
          WordBoundary >>,
       \* r'\(\d{3}\)\s?\d{3}[-.\s]?\d{4}'
       << Lit("("), Digits(3), Lit(")"), Cls(WhitespaceChars, 0, 1), Digits(3),
          OptSep, Digits(4) >>,
       \* r'\b1[-.\s]?\d{3}[-.\s]?\d{3}[-.\s]?\d{4}\b'
       << WordBoundary, Lit("1"), OptSep, Digits(3), OptSep, Digits(3), OptSep,
          Digits(4), WordBoundary >>,
       \* r'\+\d{1,3}[-.\s]?\d{3}[-.\s]?\d{3}[-.\s]?\d{4}'
       << Lit("+"), Cls(DigitChars, 1, 3), OptSep, Digits(3), OptSep, Digits(3),
          OptSep, Digits(4) >> >>

\* \b at pos: exactly one of s[pos-1], s[pos] is a word character
AtWordBoundary(s, pos) ==
    LET before == pos > 1 /\ Ch(s, pos - 1) \in WordChars
        after  == pos <= Len(s) /\ Ch(s, pos) \in WordChars
    IN  before # after

\* how many characters of `set` follow from pos, at most hi
RECURSIVE RunLen(_, _, _, _)
RunLen(s, pos, set, hi) ==
    IF hi = 0 \/ pos > Len(s) \/ Ch(s, pos) \notin set THEN 0
    ELSE 1 + RunLen(s, pos + 1, set, hi - 1)

\* The match of items j.. of pat at pos: the position after the match, or 0
\* when there is none.  TryCounts gives an item n, n-1, .. lo characters.
RECURSIVE MatchAt(_, _, _, _)
RECURSIVE TryCounts(_, _, _, _, _)
MatchAt(pat, j, s, pos) ==
    IF j > Len(pat) THEN pos
    ELSE IF pat[j].k = "boundary"
         THEN IF AtWordBoundary(s, pos) THEN MatchAt(pat, j + 1, s, pos) ELSE 0
    ELSE LET run == RunLen(s, pos, pat[j].set, pat[j].hi)
         IN  IF run < pat[j].lo THEN 0 ELSE TryCounts(pat, j, s, pos, run)

TryCounts(pat, j, s, pos, n) ==
    IF n < pat[j].lo THEN 0
    ELSE LET e == MatchAt(pat, j + 1, s, pos + n)
         IN  IF e # 0 THEN e ELSE TryCounts(pat, j, s, pos, n - 1)

\* re.findall(pat, s): the non-overlapping matches, leftmost first
RECURSIVE FindAllFrom(_, _, _)
FindAllFrom(pat, s, pos) ==
    IF pos > Len(s) THEN <<>>
    ELSE LET e == MatchAt(pat, 1, s, pos)
         IN  IF e = 0 THEN FindAllFrom(pat, s, pos + 1)
             ELSE <<SubSeq(s, pos, e - 1)>> \o FindAllFrom(pat, s, e)

FindAll(pat, s) == FindAllFrom(pat, s, 1)

\* phones = []; for pattern in phone_patterns: phones.extend(re.findall(..))
RECURSIVE FindPhonesFrom(_, _)
FindPhonesFrom(cell, k) ==
    IF k > Len(phone_patterns) THEN <<>>
    ELSE FindAll(phone_patterns[k], cell) \o FindPhonesFrom(cell, k + 1)

FindPhones(cell) == FindPhonesFrom(cell, 1)

FindEmails(cell) == FindAll(email_pattern, cell)

(***************************************************************************)
(* is_contact_table                                                        *)
(***************************************************************************)
Min(a, b) == IF a < b THEN a ELSE b

\* the header words of is_contact_table
contact_headers ==
    <<"name", "title", "phone", "mobile", "email", "contact", "role", "team member">>

\* row_text = " ".join(row).lower(); any(header in row_text for header in words)
RowHasHeader(row, words) ==
    LET row_text == Lower(Join(row, " "))
    IN  \E k \in 1..Len(words) : Contains(row_text, words[k])

MinTableRows == 2      \* len(table_data) < 2
HeaderScanRows == 3    \* table_data[:3]
PersonScanEnd == 6     \* table_data[1:6]
MinPersons == 2        \* person_count >= 2

\* variant: every row after the first is counted, table_data[1:]
person_count_unbounded(table_data) ==
    Cardinality({ r \in 2..Len(table_data) :
                    /\ Len(table_data[r]) > 0
                    /\ is_person_name(Strip(table_data[r][1])) })

\* variant: the slice starts one row late, table_data[2:6]
person_count_late(table_data) ==
    Cardinality({ r \in 3..Min(PersonScanEnd, Len(table_data)) :
                    /\ Len(table_data[r]) > 0
                    /\ is_person_name(Strip(table_data[r][1])) })

\* person_count after the loop over table_data[1:6]
person_count(table_data) ==
    Cardinality({ r \in 2..Min(PersonScanEnd, Len(table_data)) :
                    /\ Len(table_data[r]) > 0
                    /\ is_person_name(Strip(table_data[r][1])) })

\* variant: the header words alone decide, as in the earlier converters
is_contact_table_headers_only(table_data) ==
    \E r \in 1..Min(HeaderScanRows, Len(table_data)) :
        RowHasHeader(table_data[r], contact_headers)

is_contact_table(table_data) ==
    IF Len(table_data) < MinTableRows THEN FALSE
    ELSE IF ~ \E r \in 1..Min(HeaderScanRows, Len(table_data)) :
                 RowHasHeader(table_data[r], contact_headers) THEN FALSE
    ELSE person_count(table_data) >= MinPersons

(***************************************************************************)
(* extract_contact_table                                                   *)
(***************************************************************************)
\* the header words of the header search of extract_contact_table
extract_headers == <<"name", "title", "phone", "mobile", "email", "contact">>

DigitStr == <<"0", "1", "2", "3", "4", "5", "6", "7", "8", "9">>

\* str(n) for a natural number
RECURSIVE Decimal(_)
Decimal(n) ==
    IF n < 10 THEN DigitStr[n + 1] ELSE Decimal(n \div 10) \o DigitStr[(n % 10) + 1]

\* [col.lower().strip() for col in row]
HeaderCells(row) == [i \in 1..Len(row) |-> Strip(Lower(row[i]))]

\* The 0-based index of the first row with a header word, -1 when no row has
\* one (the loop runs over every row of table_data).
RECURSIVE FindHeaderRow(_, _)
FindHeaderRow(table_data, i) ==
    IF i >= Len(table_data) THEN -1
    ELSE IF RowHasHeader(table_data[i + 1], extract_headers) THEN i
    ELSE FindHeaderRow(table_data, i + 1)

MinInferCols == 3      \* len(table_data[0]) >= 3

\* variant: the fields are numbered from 1, "field_4" for the cell at index 3
InferredHeadersOneBased(n) ==
    [i \in 1..n |-> IF i = 1 THEN "name"
                    ELSE IF i = 2 THEN "title"
                    ELSE IF i = 3 THEN "contact_info"
                    ELSE "field_" \o Decimal(i)]

\* ["name", "title", "contact_info", "field_3", ...] for a first row of n cells
InferredHeaders(n) ==
    [i \in 1..n |-> IF i = 1 THEN "name"
                    ELSE IF i = 2 THEN "title"
                    ELSE IF i = 3 THEN "contact_info"
                    ELSE "field_" \o Decimal(i - 1)]

\* contact = {...} at the start of a row
NewContact(row) ==
    [type |-> "team_member", name |-> "", title |-> "", phone |-> <<>>,
     mobile |-> <<>>, email |-> <<>>, location |-> "", description |-> "",
     raw_data |-> row]
\* variant: "room" is the one word that tells a location
location_words_room == <<"room">>

location_words == <<"office", "building", "floor", "room">>
\* variant: a raw cell must be longer than 6 characters
MinRawLenSix == 5 + 1

MinRawLen == 5         \* len(cell) > 5
MinLastLen == 10       \* len(cell) > 10

\* One pass of the body of `for i, cell in enumerate(row)` after the break
\* test: i is 0-based, contact is the record so far.
MapCell(contact, headers, row, i) ==
    LET cell == Strip(row[i + 1]) IN
    IF cell = "" THEN contact
    ELSE
    LET header == IF i < Len(headers) THEN headers[i + 1] ELSE "field_" \o Decimal(i)
        emails == FindEmails(cell)
        phones == FindPhones(cell)
        cell_lower == Lower(cell)
        c == [contact EXCEPT !.email = @ \o emails]
    IN  IF i = 0 \/ Contains(header, "name")
            THEN [c EXCEPT !.name = cell]
        ELSE IF i = 1 \/ Contains(header, "title") \/ Contains(header, "role")
            THEN [c EXCEPT !.title = cell]
        ELSE IF Contains(header, "phone") /\ ~Contains(header, "mobile")
            THEN IF phones # <<>> THEN [c EXCEPT !.phone = @ \o phones]
                 ELSE IF emails = <<>> /\ Len(cell) > MinRawLen
                      THEN [c EXCEPT !.phone = Append(@, cell)]
                 ELSE c
        ELSE IF Contains(header, "mobile") \/ Contains(header, "cell")
            THEN IF phones # <<>> THEN [c EXCEPT !.mobile = @ \o phones]
                 ELSE IF emails = <<>> /\ Len(cell) > MinRawLen
                      THEN [c EXCEPT !.mobile = Append(@, cell)]
                 ELSE c
        ELSE IF Contains(header, "location") \/ Contains(header, "site")
            THEN [c EXCEPT !.location = cell]
        ELSE IF Contains(header, "description") \/ Contains(header, "notes")
            THEN [c EXCEPT !.description = cell]
        ELSE IF Contains(header, "email")
            THEN IF emails = <<>> THEN [c EXCEPT !.email = Append(@, cell)] ELSE c
        ELSE IF emails # <<>>
            THEN [c EXCEPT !.email = @ \o emails]
        ELSE IF phones # <<>>
            THEN IF Contains(cell_lower, "mobile") \/ Len(c.phone) > 0
                 THEN [c EXCEPT !.mobile = @ \o phones]
                 ELSE [c EXCEPT !.phone = @ \o phones]
        ELSE IF i = Len(row) - 1 /\ Len(cell) > MinLastLen
            THEN IF c.location = ""
                    /\ \E k \in 1..Len(location_words) :
                           Contains(cell_lower, location_words[k])
                 THEN [c EXCEPT !.location = cell]
                 ELSE IF c.description = "" THEN [c EXCEPT !.description = cell]
                 ELSE c
        ELSE c

\* for i, cell in enumerate(row): if i >= len(headers): break; ...
RECURSIVE MapCells(_, _, _, _)
MapCells(contact, headers, row, i) ==
    IF i >= Len(row) \/ i >= Len(headers) THEN contact
    ELSE MapCells(MapCell(contact, headers, row, i), headers, row, i + 1)

\* the record a row has built when its loop over the cells ends
BuildContact(headers, row) == MapCells(NewContact(row), headers, row, 0)

\* variant: the blank cells of a row are dropped before its cells are
\* numbered, so the cells after a blank one move one column to the left
RECURSIVE CellTraceShifted(_, _, _, _)
CellTraceShifted(trace, headers, row, i) ==
    LET kept == SelectSeq(row, LAMBDA c : Strip(c) # "")
    IN  IF i >= Len(kept) \/ i >= Len(headers) THEN trace
        ELSE CellTraceShifted(
                 Append(trace, MapCell(trace[Len(trace)], headers, kept, i)),
                 headers, kept, i + 1)

\* variant: the cell at index 1 is resolved by its header alone, as the
\* cells after it are
RECURSIVE CellTraceHeaderFirst(_, _, _, _)
CellTraceHeaderFirst(trace, headers, row, i) ==
    IF i >= Len(row) \/ i >= Len(headers) THEN trace
    ELSE LET before == trace[Len(trace)]
             after == IF i = 1
                      THEN MapCell(before, <<headers[1], "", headers[2]>>,
                                   <<row[1], "", row[2]>>, 2)
                      ELSE MapCell(before, headers, row, i)
         IN  CellTraceHeaderFirst(Append(trace, after), headers, row, i + 1)

\* variant: a number under a header no rule names goes to phone or mobile
\* by the words of its cell alone, whatever phone holds
RECURSIVE CellTraceByWordOnly(_, _, _, _)
CellTraceByWordOnly(trace, headers, row, i) ==
    IF i >= Len(row) \/ i >= Len(headers) THEN trace
    ELSE LET before == trace[Len(trace)]
             fresh == MapCell([before EXCEPT !.phone = <<>>], headers, row, i)
             after == [fresh EXCEPT !.phone = before.phone \o @]
         IN  CellTraceByWordOnly(Append(trace, after), headers, row, i + 1)
\* variant: the addresses in the cells at index 0 and 1 are not collected
RECURSIVE CellTraceFieldOnly(_, _, _, _)
CellTraceFieldOnly(trace, headers, row, i) ==
    IF i >= Len(row) \/ i >= Len(headers) THEN trace
    ELSE LET before == trace[Len(trace)]
             mapped == MapCell(before, headers, row, i)
             after == IF i <= 1 THEN [mapped EXCEPT !.email = before.email]
                      ELSE mapped
         IN  CellTraceFieldOnly(Append(trace, after), headers, row, i + 1)

\* variant: the name is the first cell, whatever the other headers are
RECURSIVE CellTraceFirstName(_, _, _, _)
CellTraceFirstName(trace, headers, row, i) ==
    IF i >= Len(row) \/ i >= Len(headers) THEN trace
    ELSE LET before == trace[Len(trace)]
             mapped == MapCell(before, headers, row, i)
             after == IF i > 0 THEN [mapped EXCEPT !.name = before.name]
                      ELSE mapped
         IN  CellTraceFirstName(Append(trace, after), headers, row, i + 1)

\* variant: a cell in which no address is found adds nothing to email
RECURSIVE CellTraceAddressesOnly(_, _, _, _)
CellTraceAddressesOnly(trace, headers, row, i) ==
    IF i >= Len(row) \/ i >= Len(headers) THEN trace
    ELSE LET before == trace[Len(trace)]
             mapped == MapCell(before, headers, row, i)
             after == IF FindEmails(Strip(row[i + 1])) = <<>>
                      THEN [mapped EXCEPT !.email = before.email]
                      ELSE mapped
         IN  CellTraceAddressesOnly(Append(trace, after), headers, row, i + 1)

\* The records the loop over the cells of a row passes through: the new
\* contact first, then the record after each cell that the loop reached
\* (not a value of the code, kept to state what one cell changes).
RECURSIVE CellTrace(_, _, _, _)
CellTrace(trace, headers, row, i) ==
    IF i >= Len(row) \/ i >= Len(headers) THEN trace
    ELSE CellTrace(Append(trace, MapCell(trace[Len(trace)], headers, row, i)),
                   headers, row, i + 1)

\* not any(cell.strip() for cell in row)
IsBlankRow(row) == \A i \in 1..Len(row) : Strip(row[i]) = ""

\* variant: only blank rows are skipped
SkipsBlankOnly(row) == IsBlankRow(row) \/ Len(row) = 0

\* the two `continue` tests at the top of the loop over the rows
SkipsRow(row) ==
    \/ IsBlankRow(row)
    \/ Len(row) = 0
    \/ ~is_person_name(Strip(row[1]))

\* variant: the name is not validated again
HasNameOnly(contact) == contact.name # ""

\* if contact["name"] and is_person_name(contact["name"])
HasValidName(contact) == contact.name # "" /\ is_person_name(contact.name)

\* variant: a new contact is put in front of the ones found so far
RECURSIVE ExtractRowsReversed(_, _, _, _)
ExtractRowsReversed(table_data, headers, r, acc) ==
    IF r >= Len(table_data) THEN acc
    ELSE LET row == table_data[r + 1]
             trace == CellTrace(<<NewContact(row)>>, headers, row, 0)
             contact == trace[Len(trace)]
         IN  IF SkipsRow(row) \/ ~HasValidName(contact)
             THEN ExtractRowsReversed(table_data, headers, r + 1, acc)
             ELSE ExtractRowsReversed(table_data, headers, r + 1,
                                      [contacts |-> <<contact>> \o acc.contacts,
                                       rows |-> <<r>> \o acc.rows,
                                       steps |-> <<trace>> \o acc.steps])

\* The loop over table_data[start_row:], from the 0-based row r on.  acc holds
\* contacts and, beside it, the 0-based index of the row each contact was
\* built from and the records its cells led through (rows and steps: not
\* values of the code, kept to state where a record comes from).
RECURSIVE ExtractRows(_, _, _, _)
ExtractRows(table_data, headers, r, acc) ==
    IF r >= Len(table_data) THEN acc
    ELSE LET row == table_data[r + 1]
             trace == CellTrace(<<NewContact(row)>>, headers, row, 0)
             contact == trace[Len(trace)]
         IN  IF SkipsRow(row) \/ ~HasValidName(contact)
             THEN ExtractRows(table_data, headers, r + 1, acc)
             ELSE ExtractRows(table_data, headers, r + 1,
                              [contacts |-> Append(acc.contacts, contact),
                               rows |-> Append(acc.rows, r),
                               steps |-> Append(acc.steps, trace)])

\* what a call of extract_contact_table leaves: whether it raised, the list
\* it returned, and its locals headers, header_row_index and start_row
\* (scanned is FALSE when the call returned before setting them)
NoOutcome ==
    [called |-> FALSE, raised |-> FALSE, scanned |-> FALSE, contacts |-> <<>>,
     rows |-> <<>>, steps |-> <<>>, headers |-> <<>>, header_row_index |-> -1,
     start_row |-> 0]

\* lines 98-211: the body of extract_contact_table after its first test
ExtractBody(table_data) ==
    LET found == FindHeaderRow(table_data, 0)
    IN  IF found = -1 /\ Len(table_data) = 0
        THEN \* table_data[0] raises IndexError
             [NoOutcome EXCEPT !.called = TRUE, !.raised = TRUE]
        ELSE
        LET headers ==
                IF found >= 0 THEN HeaderCells(table_data[found + 1])
                ELSE IF Len(table_data[1]) >= MinInferCols
                     THEN InferredHeaders(Len(table_data[1]))
                ELSE <<>>
            start_row == IF found >= 0 THEN found + 1 ELSE 0
            acc == ExtractRows(table_data, headers, start_row,
                               [contacts |-> <<>>, rows |-> <<>>, steps |-> <<>>])
        IN  [called |-> TRUE, raised |-> FALSE, scanned |-> TRUE,
             contacts |-> acc.contacts, rows |-> acc.rows, steps |-> acc.steps,
             headers |-> headers, header_row_index |-> found,
             start_row |-> start_row]

\* variant: the rows are read whatever is_contact_table says
extract_ungated(table_data) == ExtractBody(table_data)

extract_contact_table(table_data) ==
    IF ~is_contact_table(table_data)
    THEN [NoOutcome EXCEPT !.called = TRUE]
    ELSE ExtractBody(table_data)

(***************************************************************************)
(* extract_fixed_document_structure: the pass over the paragraphs and the  *)
(* pass over the tables of a document.  A document is a sequence of        *)
(* blocks in document order; a block is a paragraph with its text and the  *)
(* name of its style, or a table with the texts of its cells.              *)
(* doc.paragraphs are the paragraphs of the sequence in order, doc.tables  *)
(* its tables in order.                                                    *)
(***************************************************************************)
UpperMap == [c \in LowerChars |->
                CHOOSE u \in UpperChars : LowerMap[u] = c]

RECURSIVE UpperFrom(_, _)
UpperFrom(s, i) ==
    IF i > Len(s) THEN ""
    ELSE (IF Ch(s, i) \in LowerChars THEN UpperMap[Ch(s, i)] ELSE Ch(s, i))
         \o UpperFrom(s, i + 1)

\* str.upper()
Upper(s) == UpperFrom(s, 1)

\* str.isupper(): a cased character, and no lowercase one
IsUpper(s) ==
    /\ \E i \in 1..Len(s) : Ch(s, i) \in UpperChars
    /\ \A i \in 1..Len(s) : Ch(s, i) \notin LowerChars

\* the character c of a heading in the key of its section
KeyChar(c) ==
    IF c \in UpperChars THEN LowerMap[c]
    ELSE IF c = " " \/ c = "-" THEN "_"
    ELSE IF c \in {":", "(", ")", ","} THEN ""
    ELSE c

\* text.lower().replace(" ", "_").replace(":", "").replace("(", "")
\*     .replace(")", "").replace("-", "_").replace(",", "")
RECURSIVE SectionKeyFrom(_, _)
SectionKeyFrom(s, i) ==
    IF i > Len(s) THEN "" ELSE KeyChar(Ch(s, i)) \o SectionKeyFrom(s, i + 1)

SectionKey(heading) == SectionKeyFrom(heading, 1)

MinUpperHeading == 10     \* len(text) > 10
MaxUpperHeading == 100    \* len(text) < 100

\* is_heading of a paragraph with the stripped text and the style name
is_heading(para, style_name) ==
    \/ Contains(Lower(style_name), "heading")
    \/ style_name \in {"Title", "Heading 1", "Heading 2"}
    \/ (LET upper == Upper(para)
        IN  Contains(upper, "SECTION") \/ Contains(upper, "APPENDIX"))
    \/ (IsUpper(para) /\ Len(para) > MinUpperHeading
                      /\ Len(para) < MaxUpperHeading)

Paragraph(para, style_name) ==
    [kind |-> "p", text |-> para, style |-> style_name, rows |-> <<>>]

Table(table_rows) ==
    [kind |-> "tbl", text |-> "", style |-> "", rows |-> table_rows]

\* doc.paragraphs
ParagraphsOf(blocks) == SelectSeq(blocks, LAMBDA b : b.kind = "p")

\* doc.tables
TablesOf(blocks) == SelectSeq(blocks, LAMBDA b : b.kind = "tbl")

NoSections == [k \in {} |-> <<>>]

\* current_section_key = None; None and "" are both false where it is tested
NoSectionKey == ""

\* structure["sections"][current_section_key] = {...} when a section is open
\* and has content
SaveSection(st) ==
    IF st.current_section_key # NoSectionKey /\ st.current_content # <<>>
    THEN (st.current_section_key :>
             [title |-> st.current_section_title, type |-> "general",
              content |-> st.current_content]) @@ st.sections
    ELSE st.sections

\* the body of the loop over doc.paragraphs for one paragraph
ParagraphStep(st, p) ==
    LET para == Strip(p.text)
    IN  IF para = "" THEN st
        ELSE IF is_heading(para, p.style)
        THEN LET upper == Upper(para)
                 level == IF Contains(upper, "SECTION")
                             \/ Contains(upper, "APPENDIX") THEN 1 ELSE 2
             IN  [sections |-> SaveSection(st),
                  toc |-> Append(st.toc, [key |-> SectionKey(para),
                                          title |-> para, level |-> level]),
                  current_section_key |-> SectionKey(para),
                  current_section_title |-> para,
                  current_content |-> <<>>]
        ELSE IF st.current_section_key # NoSectionKey
        THEN [st EXCEPT !.current_content =
                 Append(@, [type |-> "text", content |-> para])]
        ELSE st

RECURSIVE ParagraphLoop(_, _, _)
ParagraphLoop(st, paragraphs, i) ==
    IF i > Len(paragraphs) THEN st
    ELSE ParagraphLoop(ParagraphStep(st, paragraphs[i]), paragraphs, i + 1)

\* the pass over the paragraphs with the save of the last section
ParagraphPass(blocks) ==
    LET st == ParagraphLoop([sections |-> NoSections, toc |-> <<>>,
                             current_section_key |-> NoSectionKey,
                             current_section_title |-> "",
                             current_content |-> <<>>],
                            ParagraphsOf(blocks), 1)
    IN  [st EXCEPT !.sections = SaveSection(st)]

\* the stripped non-empty cells of a row
RowData(row) ==
    SelectSeq([i \in 1..Len(row) |-> Strip(row[i])], LAMBDA c : c # "")

\* the non-empty rows of a table
TableData(table_rows) ==
    SelectSeq([r \in 1..Len(table_rows) |-> RowData(table_rows[r])],
              LAMBDA row_data : row_data # <<>>)

ContextRows == 2    \* table_data[:2]

\* " ".join([" ".join(row) for row in table_data[:2]]).lower()
TableContext(table_data) ==
    Lower(Join([r \in 1..Min(ContextRows, Len(table_data)) |->
                   Join(table_data[r], " ")], " "))

\* the section that the words of the table name ("" for None)
TargetByContext(table_context) ==
    IF Contains(table_context, "bft")
       \/ Contains(table_context, "business function")
    THEN "business_function_team_bft"
    ELSE IF Contains(table_context, "cft")
            \/ Contains(table_context, "cross functional")
    THEN "cross_functional_team_cft"
    ELSE ""

\* the section that receives the records of a table: the one its words
\* name, else the open section when its key tells of the business function
TargetSection(table_context, current_section_key) ==
    LET target_section == TargetByContext(table_context)
    IN  IF target_section = "" /\ current_section_key # NoSectionKey
           /\ (Contains(current_section_key, "business_function")
               \/ Contains(current_section_key, "bft"))
        THEN current_section_key
        ELSE target_section

\* the records of a table: none when the table is empty or is no contact
\* table
TableContacts(table_data) ==
    IF table_data # <<>> /\ is_contact_table(table_data)
    THEN extract_contact_table(table_data).contacts
    ELSE <<>>

\* what is kept per table of doc.tables: its rows when it has some, the
\* section key in effect and its records
TableSeen(st, table_data, contacts, current_section_key) ==
    [st EXCEPT !.tables = IF table_data # <<>>
                          THEN Append(@, table_data) ELSE @,
               !.context = Append(@, current_section_key),
               !.contacts = Append(@, contacts)]

\* the records go to the target section when the document has it, else to
\* a section of their own; placed is the key of the section that received
\* them ("" when none did)
TablePlace(st, seen, contacts, table_context, target_section) ==
    LET section_key ==
            IF target_section # "" THEN target_section
            ELSE "team_contacts_" \o Decimal(Cardinality(DOMAIN st.sections))
    IN  IF contacts = <<>> THEN [seen EXCEPT !.placed = Append(@, "")]
        ELSE IF target_section # "" /\ target_section \in DOMAIN st.sections
        THEN [seen EXCEPT
                 !.sections[target_section].type = "contacts",
                 !.sections[target_section].content = @ \o contacts,
                 !.placed = Append(@, target_section)]
        ELSE [seen EXCEPT
                 !.sections = (section_key :>
                     [title |-> IF Contains(table_context, "bft")
                                THEN "Business Function Team (BFT)"
                                ELSE "Team Contacts",
                      type |-> "contacts",
                      content |-> contacts]) @@ @,
                 !.placed = Append(@, section_key)]

\* the body of the loop over doc.tables for a table with the rows
\* table_data, the records contacts and the words table_context
TableStepWith(st, table_data, contacts, table_context, current_section_key) ==
    TablePlace(st, TableSeen(st, table_data, contacts, current_section_key),
               contacts, table_context,
               TargetSection(table_context, current_section_key))

\* the body of the loop over doc.tables for one table
TableStep(st, tbl, current_section_key) ==
    TableStepWith(st, TableData(tbl.rows),
                  TableContacts(TableData(tbl.rows)),
                  TableContext(TableData(tbl.rows)), current_section_key)

RECURSIVE TableLoop(_, _, _, _)
TableLoop(st, tbls, i, current_section_key) ==
    IF i > Len(tbls) THEN st
    ELSE TableLoop(TableStep(st, tbls[i], current_section_key), tbls, i + 1,
                   current_section_key)

\* the pass over the tables, from the sections and the section key that
\* the pass over the paragraphs left
TablePass(paragraphs, tbls) ==
    TableLoop([sections |-> paragraphs.sections, tables |-> <<>>,
               context |-> <<>>, contacts |-> <<>>, placed |-> <<>>],
              tbls, 1, paragraphs.current_section_key)

\* sections, toc and tables are what extract_fixed_document_structure
\* returns; paragraph_sections are the sections as the pass over the
\* paragraphs left them, context, contacts and placed are kept per table
\* of doc.tables
FixedStructure(paragraphs, st) ==
    [sections |-> st.sections, toc |-> paragraphs.toc,
     tables |-> st.tables,
     paragraph_sections |-> paragraphs.sections,
     context |-> st.context, contacts |-> st.contacts,
     placed |-> st.placed]

\* extract_fixed_document_structure(doc)
extract_fixed_document_structure(blocks) ==
    FixedStructure(ParagraphPass(blocks),
                   TablePass(ParagraphPass(blocks), TablesOf(blocks)))

(***************************************************************************)
(* extract_all_tables_with_context of tac_table_analyzer: one walk over    *)
(* the body of the document in document order.                             *)
(***************************************************************************)
tac_keywords ==
    <<"SECTION", "BUSINESS FUNCTION", "BFT", "CFT", "RECOVERY TEAM">>

UnknownSection == "unknown"

\* the rows of a table with their cells stripped, the rows that have a
\* cell that is not blank
StrippedRows(table_rows) ==
    SelectSeq([r \in 1..Len(table_rows) |->
                  [i \in 1..Len(table_rows[r]) |-> Strip(table_rows[r][i])]],
              LAMBDA row_data : \E i \in 1..Len(row_data) : row_data[i] # "")

\* the body of the loop over doc.element.body for one element
ElementStep(st, b) ==
    IF b.kind = "p"
    THEN LET para == Strip(b.text)
             upper == Upper(para)
         IN  IF para # "" /\ \E k \in 1..Len(tac_keywords) :
                                 Contains(upper, tac_keywords[k])
             THEN [st EXCEPT !.current_section = para]
             ELSE st
    ELSE LET table_data == StrippedRows(b.rows)
         IN  IF table_data = <<>> THEN st
             ELSE [st EXCEPT !.all_tables =
                      Append(@, [data |-> table_data,
                                 context |-> st.current_section,
                                 row_count |-> Len(table_data),
                                 col_count |-> Len(table_data[1])])]

RECURSIVE ElementLoop(_, _, _)
ElementLoop(st, blocks, i) ==
    IF i > Len(blocks) THEN st
    ELSE ElementLoop(ElementStep(st, blocks[i]), blocks, i + 1)

extract_all_tables_with_context(blocks) ==
    ElementLoop([all_tables |-> <<>>, current_section |-> UnknownSection],
                blocks, 1).all_tables

(***************************************************************************)
(* extract_bft_cft_from_document of extract_distinct_bft: all_elements     *)
(* holds every paragraph of the document, then every table.                *)
(***************************************************************************)
\* clean_text: runs of whitespace become one space, the ends are stripped;
\* the control characters it removes are none of the whitespace characters
clean_text(t) == Join(Split(t), " ")

bft_words == <<"section", "recovery", "team", "contact">>

\* all_elements
AllElements(blocks) == ParagraphsOf(blocks) \o TablesOf(blocks)

\* the body of the loop over all_elements for one element; sections keeps
\* the current_section that is_bft_cft_table is given for each table
BftElementStep(st, b) ==
    IF b.kind = "p"
    THEN LET para_text == clean_text(b.text)
             lowered == Lower(para_text)
         IN  IF para_text # "" /\ \E k \in 1..Len(bft_words) :
                                     Contains(lowered, bft_words[k])
             THEN [st EXCEPT !.current_section = para_text]
             ELSE st
    ELSE [st EXCEPT !.sections = Append(@, st.current_section)]

RECURSIVE BftElementLoop(_, _, _)
BftElementLoop(st, all_elements, i) ==
    IF i > Len(all_elements) THEN st
    ELSE BftElementLoop(BftElementStep(st, all_elements[i]), all_elements,
                        i + 1)

\* the section contexts of the tables in extract_bft_cft_from_document
BftSections(blocks) ==
    BftElementLoop([sections |-> <<>>, current_section |-> ""],
                   AllElements(blocks), 1).sections

(***************************************************************************)
(* The callers.  A caller builds table_data row by row, asks               *)
(* is_contact_table and then extract_contact_table about it.  The rows     *)
(* come from a pool; the specifications below differ in the pool and in    *)
(* the number of rows.                                                     *)
(***************************************************************************)
AddRow(pool, maxRows) ==
    /\ pc = "input"
    /\ Len(table) < maxRows
    /\ \E row \in pool : table' = Append(table, row)
    /\ UNCHANGED <<text, nameResult, pc, isContact, out, calls,
                   doc, structure, all_tables, bft_sections, plan, analysis,
                   bcp_data, results, runs, bft_content, returned>>

CallIsContactTable ==
    /\ pc = "input"
    /\ isContact' = is_contact_table(table)
    /\ pc' = "classified"
    /\ UNCHANGED <<text, nameResult, table, out, calls,
                   doc, structure, all_tables, bft_sections, plan, analysis,
                   bcp_data, results, runs, bft_content, returned>>
\* variant: the call takes the first row off the table it was given
CallExtractConsuming ==
    /\ pc = "classified"
    /\ out' = extract_contact_table(table)
    /\ table' = IF table = <<>> THEN table ELSE Tail(table)
    /\ pc' = "extracted"
    /\ UNCHANGED <<text, nameResult, isContact, calls,
                   doc, structure, all_tables, bft_sections, plan, analysis,
                   bcp_data, results, runs, bft_content, returned>>

CallExtractContactTable ==
    /\ pc = "classified"
    /\ out' = extract_contact_table(table)
    /\ pc' = "extracted"
    /\ UNCHANGED <<text, nameResult, table, isContact, calls,
                   doc, structure, all_tables, bft_sections, plan, analysis,
                   bcp_data, results, runs, bft_content, returned>>
\* a second call of extract_contact_table with the table of the first
CallExtractAgain ==
    /\ pc = "extracted"
    /\ out' = extract_contact_table(table)
    /\ pc' = "repeated"
    /\ UNCHANGED <<text, nameResult, table, isContact, calls,
                   doc, structure, all_tables, bft_sections, plan, analysis,
                   bcp_data, results, runs, bft_content, returned>>

CallIsPersonName ==
    /\ pc = "input"
    /\ nameResult' = is_person_name(text)
    /\ pc' = "named"
    /\ UNCHANGED <<text, table, isContact, out, calls,
                   doc, structure, all_tables, bft_sections, plan, analysis,
                   bcp_data, results, runs, bft_content, returned>>

InitTable ==
    /\ text = ""
    /\ nameResult = "none"
    /\ table = <<>>
    /\ pc = "input"
    /\ isContact = "none"
    /\ out = NoOutcome
    /\ calls = <<>>
    /\ doc = <<>>
    /\ structure = <<>>
    /\ all_tables = <<>>
    /\ bft_sections = <<>>
    /\ plan = <<>>
    /\ analysis = <<>>
    /\ bcp_data = <<>>
    /\ results = <<>>
    /\ runs = 0
    /\ bft_content = <<>>
    /\ returned = "none"

(***************************************************************************)
(* The rows the tables are built from.                                     *)
(***************************************************************************)
HeaderRow == <<"Name", "Title", "Phone">>
JaneRow == <<"Jane Smith", "Team Lead", "555-123-4567">>
RobertRow == <<"Robert Jones", "Analyst", "555-987-6543">>
\* a procedure step with a phone number, an address and a person's name
ProcedureRow ==
    <<"Return to Normal Operations", "555-222-3333", "ops@example.com", "Jane Smith">>
BlankRow == <<"", " ", "\t">>
\* a header with a second column whose header holds "name"
UserHeaderRow == <<"Name", "Title", "Phone", "Username">>
UserRow == <<"Amy Adams", "Manager", "555-444-5555", "aadams">>
\* a name of 50 characters between two blanks
PaddedName == " Abcdefghijklmnopqrst Abcdefghijklmnopqrst Al Jonas "
PaddedRow == <<PaddedName, "Director", "555-666-7777">>
\* rows with "role" or "team member", which only is_contact_table looks for
RoleRow == <<"Team Member", "Role">>
WideRoleRow ==
    <<"Jane Smith", "Support Role", "555-123-4567", "Main Office, Floor 3", "n/a today">>
AmyRow == <<"Amy Adams", "Analyst", "555-987-6543">>
\* a person's row whose address holds the word "email"
EmailRow == <<"Bob Jones", "Lead", "bob@email.com">>

(***************************************************************************)
(* Spec: the directory of Scenario A, a second header with a user-name     *)
(* column and a row under it.                                              *)
(***************************************************************************)
RowPool == {HeaderRow, JaneRow, RobertRow, UserHeaderRow, UserRow}

MaxRows == 4

Next ==
    \/ AddRow(RowPool, MaxRows)
    \/ CallIsContactTable
    \/ CallExtractContactTable

Spec == InitTable /\ [][Next]_vars

(***************************************************************************)
(* SpecSkip: tables with rows the loop over the rows skips.                *)
(***************************************************************************)
SkipPool == {UserHeaderRow, JaneRow, ProcedureRow, BlankRow, PaddedRow}

MaxRowsSkip == 4

NextSkip ==
    \/ AddRow(SkipPool, MaxRowsSkip)
    \/ CallIsContactTable
    \/ CallExtractContactTable

SpecSkip == InitTable /\ [][NextSkip]_vars

(***************************************************************************)
(* SpecGate: tables long enough to have rows after the ones                *)
(* is_contact_table reads.                                                 *)
(***************************************************************************)
GatePool == {HeaderRow, JaneRow, PaddedRow}

MaxRowsGate == 7

NextGate ==
    \/ AddRow(GatePool, MaxRowsGate)
    \/ CallIsContactTable

SpecGate == InitTable /\ [][NextGate]_vars

(***************************************************************************)
(* SpecHeader: tables whose header row is not the first row, or that have  *)
(* no header row.                                                          *)
(***************************************************************************)
HeaderPool == {HeaderRow, RoleRow, WideRoleRow, AmyRow, EmailRow}

MaxRowsHeader == 4

NextHeader ==
    \/ AddRow(HeaderPool, MaxRowsHeader)
    \/ CallIsContactTable
    \/ CallExtractContactTable

SpecHeader == InitTable /\ [][NextHeader]_vars

(***************************************************************************)
(* SpecName: is_person_name on texts made of a prefix and of tokens joined *)
(* by one space.                                                           *)
(***************************************************************************)
Token20 == "Abcdefghijklmnopqrst"
Token21 == "Abcdefghijklmnopqrstu"

NameTokens == {"Al", "jonas", Token20, Token21}

NamePrefixes == {"", " ", "Team ", "R2 ", "x_y ", "O'Neil-Jr. ", "Z "}

MaxNameTokens == 5

NameTexts ==
    { prefix \o Join(ts, " ") :
        prefix \in NamePrefixes,
        ts \in UNION { [1..n -> NameTokens] : n \in 0..MaxNameTokens } }

InitName ==
    /\ text \in NameTexts
    /\ nameResult = "none"
    /\ table = <<>>
    /\ pc = "input"
    /\ isContact = "none"
    /\ out = NoOutcome
    /\ calls = <<>>
    /\ doc = <<>>
    /\ structure = <<>>
    /\ all_tables = <<>>
    /\ bft_sections = <<>>
    /\ plan = <<>>
    /\ analysis = <<>>
    /\ bcp_data = <<>>
    /\ results = <<>>
    /\ runs = 0
    /\ bft_content = <<>>
    /\ returned = "none"

NextName == CallIsPersonName

SpecName == InitName /\ [][NextName]_vars
(***************************************************************************)
(* SpecCell: a header row, a person's row and a row that grows cell by     *)
(* cell, to see what each cell of a row does to the record.                *)
(***************************************************************************)
PhoneEmailHeader == <<"Name", "Title", "Phone", "Email">>
\* "phone" heads the cell at index 1, "cell phone" holds "cell" and "phone"
MobileHeader == <<"Name", "Phone", "Mobile", "Cell Phone">>
\* "contact" and "info" are headers no rule of the mapping names
InfoHeader == <<"Name", "Email", "Contact", "Info">>
LocationHeader == <<"Name", "Title", "Location", "Info">>
NotesHeader == <<"Name", "Title", "Notes", "Info">>
\* "nickname" holds "name" and heads the cell at index 1
NicknameHeader == <<"Name", "Nickname", "Cell", "Site">>

CellHeaders ==
    {PhoneEmailHeader, MobileHeader, InfoHeader, LocationHeader, NotesHeader,
     NicknameHeader}

JohnAddress == "john.doe@example.com"

NameCells == {"John Doe"}
TitleCells == {"Coordinator", "Jack Doe", JohnAddress, "555-123-4567"}
OtherCells ==
    {"", JohnAddress, "555-123-4567", "mobile 555-987-6543", "ext 42", "ex 42",
     "Main Office, Floor 3", "Night shift"}

\* the cells a row may get at the 0-based index i
CellsAt(i) == IF i = 0 THEN NameCells ELSE IF i = 1 THEN TitleCells ELSE OtherCells

MaxCells == 4

\* the last row of the table gets one more cell
AddCell ==
    /\ pc = "input"
    /\ Len(table) > 0
    /\ Len(table[Len(table)]) < MaxCells
    /\ \E c \in CellsAt(Len(table[Len(table)])) :
           table' = [table EXCEPT ![Len(table)] = Append(@, c)]
    /\ UNCHANGED <<text, nameResult, pc, isContact, out, calls,
                   doc, structure, all_tables, bft_sections, plan, analysis,
                   bcp_data, results, runs, bft_content, returned>>

InitCell ==
    /\ text = ""
    /\ nameResult = "none"
    /\ table \in { <<h, JaneRow, <<>>>> : h \in CellHeaders }
    /\ pc = "input"
    /\ isContact = "none"
    /\ out = NoOutcome
    /\ calls = <<>>
    /\ doc = <<>>
    /\ structure = <<>>
    /\ all_tables = <<>>
    /\ bft_sections = <<>>
    /\ plan = <<>>
    /\ analysis = <<>>
    /\ bcp_data = <<>>
    /\ results = <<>>
    /\ runs = 0
    /\ bft_content = <<>>
    /\ returned = "none"

NextCell ==
    \/ AddCell
    \/ CallIsContactTable
    \/ CallExtractContactTable

SpecCell == InitCell /\ [][NextCell]_vars

\* the 0-based index of the row that grows, and the place of its record in
\* the list returned (0 when it has none)
GrownRow == Len(table) - 1

GrownAt == IF \E k \in 1..Len(out.rows) : out.rows[k] = GrownRow
           THEN CHOOSE k \in 1..Len(out.rows) : out.rows[k] = GrownRow
           ELSE 0

(***************************************************************************)
(* SpecRagged: tables whose rows differ in length, with rows of no cell,   *)
(* rows shorter and longer than the header row and tables with no header   *)
(* row; extract_contact_table is called twice.                             *)
(***************************************************************************)
NoCellRow == <<>>
NameOnlyHeader == <<"Name">>
JohnOnlyRow == <<"John Doe">>

RaggedPool == {NoCellRow, NameOnlyHeader, JohnOnlyRow, JaneRow, WideRoleRow}

MaxRowsRagged == 4

NextRagged ==
    \/ AddRow(RaggedPool, MaxRowsRagged)
    \/ CallIsContactTable
    \/ CallExtractContactTable
    \/ CallExtractAgain

SpecRagged == InitTable /\ [][NextRagged]_vars

ScenarioA == <<HeaderRow, JaneRow, RobertRow>>
(***************************************************************************)
(* SpecCalls: calls of extract_contact_table that run side by side, each   *)
(* with a table of its own.  A call is taken apart into the steps up to    *)
(* the loop over the rows, one step per row, and the return; the steps of  *)
(* the calls interleave in any order.                                      *)
(***************************************************************************)
MaxWorkers == 2

Workers == 1..MaxWorkers

CallTables ==
    {ScenarioA, <<HeaderRow, JaneRow>>,
     <<UserHeaderRow, JaneRow, ProcedureRow, JaneRow>>}

\* The frame of a call: its argument, its position, what is_contact_table
\* told it, its locals headers, contacts and r (the 0-based index of the
\* row the loop reads next) and the list it returned.  overlapped tells
\* whether it took a step while another call was inside its loop (not a
\* value of the code).
NewFrame(table_data) ==
    [table_data |-> table_data, pc |-> "call", is_contact |-> "none",
     headers |-> <<>>, contacts |-> <<>>, r |-> 0, returned |-> "none",
     overlapped |-> FALSE]

\* variant: headers, contacts and r are kept in one place for all calls
LocalsShared(w) == 1

\* the frame that holds the locals of the call w: its own
LocalsOf(w) == w

\* headers and start_row as lines 102-119 leave them, for a table that
\* is_contact_table accepts
CallHeaders(table_data) ==
    LET found == FindHeaderRow(table_data, 0)
    IN  [headers |-> IF found >= 0 THEN HeaderCells(table_data[found + 1])
                     ELSE IF Len(table_data[1]) >= MinInferCols
                          THEN InferredHeaders(Len(table_data[1]))
                     ELSE <<>>,
         start_row |-> IF found >= 0 THEN found + 1 ELSE 0]

Overlaps(w) == \E v \in Workers \ {w} : calls[v].pc = "rows"

\* lines 95-119: the test of the table, the header search
CallStart(w) ==
    /\ pc = "calls"
    /\ calls[w].pc = "call"
    /\ LET table_data == calls[w].table_data
           accepted == is_contact_table(table_data)
           found == CallHeaders(table_data)
       IN  calls' =
             IF ~accepted
             THEN [calls EXCEPT ![w].is_contact = FALSE,
                                ![w].returned = <<>>,
                                ![w].overlapped = @ \/ Overlaps(w),
                                ![w].pc = "done"]
             ELSE [calls EXCEPT ![LocalsOf(w)].headers = found.headers,
                                ![LocalsOf(w)].contacts = <<>>,
                                ![LocalsOf(w)].r = found.start_row,
                                ![w].is_contact = TRUE,
                                ![w].overlapped = @ \/ Overlaps(w),
                                ![w].pc = "rows"]
    /\ UNCHANGED <<text, nameResult, table, pc, isContact, out,
                   doc, structure, all_tables, bft_sections, plan, analysis,
                   bcp_data, results, runs, bft_content, returned>>

\* lines 121-209: one pass of the loop over the rows
CallRow(w) ==
    /\ pc = "calls"
    /\ calls[w].pc = "rows"
    /\ calls[LocalsOf(w)].r < Len(calls[w].table_data)
    /\ LET locals == calls[LocalsOf(w)]
           row == calls[w].table_data[locals.r + 1]
           contact == BuildContact(locals.headers, row)
       IN  calls' =
             IF SkipsRow(row) \/ ~HasValidName(contact)
             THEN [calls EXCEPT ![LocalsOf(w)].r = @ + 1,
                                ![w].overlapped = @ \/ Overlaps(w)]
             ELSE [calls EXCEPT ![LocalsOf(w)].r = @ + 1,
                                ![LocalsOf(w)].contacts = Append(@, contact),
                                ![w].overlapped = @ \/ Overlaps(w)]
    /\ UNCHANGED <<text, nameResult, table, pc, isContact, out,
                   doc, structure, all_tables, bft_sections, plan, analysis,
                   bcp_data, results, runs, bft_content, returned>>

\* line 211: return contacts
CallReturn(w) ==
    /\ pc = "calls"
    /\ calls[w].pc = "rows"
    /\ calls[LocalsOf(w)].r >= Len(calls[w].table_data)
    /\ calls' = [calls EXCEPT ![w].returned = calls[LocalsOf(w)].contacts,
                              ![w].overlapped = @ \/ Overlaps(w),
                              ![w].pc = "done"]
    /\ UNCHANGED <<text, nameResult, table, pc, isContact, out,
                   doc, structure, all_tables, bft_sections, plan, analysis,
                   bcp_data, results, runs, bft_content, returned>>

InitCalls ==
    /\ text = ""
    /\ nameResult = "none"
    /\ table = <<>>
    /\ pc = "calls"
    /\ isContact = "none"
    /\ out = NoOutcome
    /\ calls \in [Workers -> { NewFrame(t) : t \in CallTables }]
    /\ doc = <<>>
    /\ structure = <<>>
    /\ all_tables = <<>>
    /\ bft_sections = <<>>
    /\ plan = <<>>
    /\ analysis = <<>>
    /\ bcp_data = <<>>
    /\ results = <<>>
    /\ runs = 0
    /\ bft_content = <<>>
    /\ returned = "none"

NextCalls ==
    \E w \in Workers :
        \/ CallStart(w)
        \/ CallRow(w)
        \/ CallReturn(w)

SpecCalls == InitCalls /\ [][NextCalls]_vars

(***************************************************************************)
(* SpecDoc: a caller builds a document block by block and scans it once    *)
(* with one of the three scanners.                                         *)
(***************************************************************************)
BftHeading == Paragraph("Business Function Team (BFT)", "Heading 1")
RecoveryHeading == Paragraph("Recovery Team", "Heading 1")
RecoveryDashHeading == Paragraph("Recovery-Team", "Heading 2")
ContactsHeading == Paragraph("Team Contacts 1", "Heading 2")
DutyParagraph == Paragraph("Call the duty manager.", "Normal")
EscalateParagraph == Paragraph(" Escalate hourly. ", "Normal")
StaffTable == Table(<<HeaderRow, JaneRow, RobertRow>>)

BlockPool == {BftHeading, RecoveryHeading, RecoveryDashHeading,
              ContactsHeading, DutyParagraph, EscalateParagraph, StaffTable}

MaxBlocks == 4

AddBlock ==
    /\ pc = "doc"
    /\ Len(doc) < MaxBlocks
    /\ \E b \in BlockPool : doc' = Append(doc, b)
    /\ UNCHANGED <<text, nameResult, table, pc, isContact, out, calls,
                   structure, all_tables, bft_sections, plan, analysis,
                   bcp_data, results, runs, bft_content, returned>>

CallExtractFixedDocumentStructure ==
    /\ pc = "doc"
    /\ structure' = extract_fixed_document_structure(doc)
    /\ pc' = "structure"
    /\ UNCHANGED <<text, nameResult, table, isContact, out, calls,
                   doc, all_tables, bft_sections, plan, analysis,
                   bcp_data, results, runs, bft_content, returned>>

CallExtractAllTablesWithContext ==
    /\ pc = "doc"
    /\ all_tables' = extract_all_tables_with_context(doc)
    /\ pc' = "all_tables"
    /\ UNCHANGED <<text, nameResult, table, isContact, out, calls,
                   doc, structure, bft_sections, plan, analysis,
                   bcp_data, results, runs, bft_content, returned>>

CallExtractBftCftFromDocument ==
    /\ pc = "doc"
    /\ bft_sections' = BftSections(doc)
    /\ pc' = "bft_sections"
    /\ UNCHANGED <<text, nameResult, table, isContact, out, calls,
                   doc, structure, all_tables, plan, analysis,
                   bcp_data, results, runs, bft_content, returned>>

InitDoc ==
    /\ text = ""
    /\ nameResult = "none"
    /\ table = <<>>
    /\ pc = "doc"
    /\ isContact = "none"
    /\ out = NoOutcome
    /\ calls = <<>>
    /\ doc = <<>>
    /\ structure = <<>>
    /\ all_tables = <<>>
    /\ bft_sections = <<>>
    /\ plan = <<>>
    /\ analysis = <<>>
    /\ bcp_data = <<>>
    /\ results = <<>>
    /\ runs = 0
    /\ bft_content = <<>>
    /\ returned = "none"

NextDoc ==
    \/ AddBlock
    \/ CallExtractFixedDocumentStructure
    \/ CallExtractAllTablesWithContext
    \/ CallExtractBftCftFromDocument

SpecDoc == InitDoc /\ [][NextDoc]_vars

(***************************************************************************)
(* create_structured_bcp_data of extract_distinct_bft.  bcp_data maps a    *)
(* line of business to its plan; the sections of a plan are kept in the    *)
(* order of the dict, each with its key and its fields.  SpecBcp: the      *)
(* plans are read from bcp-data-final.json, the function runs, and it runs *)
(* again on a file that holds what it returned.                            *)
(***************************************************************************)
\* item.get(field, default)
Get(item, field, default) ==
    IF field \in DOMAIN item THEN item[field] ELSE default

\* s.replace(old, "")
RECURSIVE Remove(_, _)
Remove(s, old) ==
    IF Len(s) < Len(old) THEN s
    ELSE IF SubSeq(s, 1, Len(old)) = old
         THEN Remove(SubSeq(s, Len(old) + 1, Len(s)), old)
    ELSE SubSeq(s, 1, 1) \o Remove(SubSeq(s, 2, Len(s)), old)

\* the index of the first section whose key tells of the team, 0 for None
RECURSIVE FindBftSection(_, _)
FindBftSection(sections, n) ==
    IF n > Len(sections) THEN 0
    ELSE IF Contains(Lower(sections[n].key), "business_function_team")
            \/ Contains(Lower(sections[n].key), "recovery_teams")
         THEN n
    ELSE FindBftSection(sections, n + 1)

RecoveryTitle == "SECTION III: Recovery Teams"
BftTitle == "Business Function Team (BFT)"

\* the plan made for a line that bcp_data does not hold
NewPlan(contact_data) ==
    [title |-> Remove(contact_data.filename, ".docx"),
     sections |-> <<>>, tableOfContents |-> <<>>]

\* the plan with a section for the team: the one found, or a new one at
\* the end with its entry in the table of contents
WithBftSection(plan_data, line_id) ==
    IF FindBftSection(plan_data.sections, 1) # 0 THEN plan_data
    ELSE LET bft_section_id == "section_iii_recovery_teams_" \o line_id
             toc_exists ==
                 \E n \in 1..Len(plan_data.tableOfContents) :
                     Contains(Lower(Get(plan_data.tableOfContents[n],
                                        "title", "")), "recovery")
         IN  [plan_data EXCEPT
                 !.sections = Append(@, [key |-> bft_section_id,
                                         title |-> RecoveryTitle,
                                         content |-> <<>>]),
                 !.tableOfContents =
                     IF toc_exists THEN @
                     ELSE Append(@, [title |-> RecoveryTitle,
                                     key |-> bft_section_id,
                                     subsections |->
                                         <<[title |-> BftTitle,
                                            key |-> bft_section_id \o "_bft"]>>])]

\* an item that the update removes before it adds the contacts
IsGenericBft(item) ==
    /\ Get(item, "type", "") = "contacts"
    /\ Contains(Get(item, "title", ""), "Business Function Team")

\* the subsection that the update adds
BftSubsection(plan_title, contacts) ==
    [type |-> "subsection",
     title |-> BftTitle,
     content |->
        <<[type |-> "text",
           content |-> "The following table lists the Business Function Team members for "
                       \o plan_title
                       \o ". This team is responsible for coordinating business continuity activities and communications during an incident."],
          [type |-> "contacts",
           title |-> "Business Function Team Members",
           content |-> contacts]>>]

\* the body of the loop over self.results for one line of business
UpdateLine(plans, line_id, contact_data) ==
    LET plan_data == WithBftSection(IF line_id \in DOMAIN plans
                                    THEN plans[line_id]
                                    ELSE NewPlan(contact_data), line_id)
        n == FindBftSection(plan_data.sections, 1)
        kept == SelectSeq(plan_data.sections[n].content,
                          LAMBDA item : ~IsGenericBft(item))
        content == IF contact_data.contacts # <<>>
                   THEN Append(kept, BftSubsection(plan_data.title,
                                                   contact_data.contacts))
                   ELSE kept
    IN  (line_id :> [plan_data EXCEPT !.sections[n].content = content])
        @@ plans

RECURSIVE UpdateLines(_, _, _)
UpdateLines(plans, extracted, line_ids) ==
    IF line_ids = {} THEN plans
    ELSE LET line_id == CHOOSE l \in line_ids : TRUE
         IN  UpdateLines(UpdateLine(plans, line_id, extracted[line_id]),
                         extracted, line_ids \ {line_id})

create_structured_bcp_data(plans, extracted) ==
    UpdateLines(plans, extracted, DOMAIN extracted)

\* the lines of business, the plans of the file and the extracted contacts
LineIds == {"tac", "sourced"}

AmyContact == [name |-> "Amy Adams", title |-> "Analyst"]
BobContact == [name |-> "Bob Jones", title |-> "Lead"]

GenericItem ==
    [type |-> "contacts", title |-> "Business Function Team (BFT)",
     content |-> <<[name |-> "Jane Smith", title |-> "Team Lead"]>>]
ScopeItem == [type |-> "text", content |-> "The teams meet on site."]

EmptyPlan ==
    [title |-> "Plan", sections |-> <<>>, tableOfContents |-> <<>>]
TeamPlan ==
    [title |-> "Plan",
     sections |-> <<[key |-> "scope", title |-> "Scope",
                     content |-> <<ScopeItem>>],
                    [key |-> "business_function_team_bft", title |-> BftTitle,
                     type |-> "contacts",
                     content |-> <<ScopeItem, GenericItem>>]>>,
     tableOfContents |-> <<[title |-> "Scope", key |-> "scope"]>>]
RecoveryPlan ==
    [title |-> "Plan",
     sections |-> <<[key |-> "Section_III_Recovery_Teams",
                     title |-> RecoveryTitle, content |-> <<>>]>>,
     tableOfContents |-> <<[title |-> RecoveryTitle,
                            key |-> "Section_III_Recovery_Teams"]>>]

PlanPool == {EmptyPlan, TeamPlan, RecoveryPlan}

ContactLists == {<<>>, <<AmyContact>>, <<AmyContact, BobContact>>}

ContactData(line_id, contacts) ==
    [line_id |-> line_id, filename |-> line_id \o " BCP.docx",
     total_contacts |-> Len(contacts), contacts |-> contacts]

\* the functions from some of the lines to values of the set
PartialOn(lines, values) ==
    UNION { [ls -> values] : ls \in SUBSET lines }

MaxRuns == 2

\* one run: bcp-data-final.json holds bcp_data, and what the run returns
\* is the content of the file for the next run
CallCreateStructuredBcpData ==
    /\ pc = "bcp"
    /\ runs < MaxRuns
    /\ bcp_data' = create_structured_bcp_data(bcp_data, results)
    /\ runs' = runs + 1
    /\ UNCHANGED <<text, nameResult, table, pc, isContact, out, calls,
                   doc, structure, all_tables, bft_sections, plan, analysis,
                   results, bft_content, returned>>

InitBcp ==
    /\ text = ""
    /\ nameResult = "none"
    /\ table = <<>>
    /\ pc = "bcp"
    /\ isContact = "none"
    /\ out = NoOutcome
    /\ calls = <<>>
    /\ doc = <<>>
    /\ structure = <<>>
    /\ all_tables = <<>>
    /\ bft_sections = <<>>
    /\ plan = <<>>
    /\ analysis = <<>>
    /\ bcp_data \in PartialOn(LineIds, PlanPool)
    /\ \E lists \in PartialOn(LineIds, ContactLists) :
          results = [l \in DOMAIN lists |-> ContactData(l, lists[l])]
    /\ runs = 0
    /\ bft_content = <<>>
    /\ returned = "none"

NextBcp == CallCreateStructuredBcpData

SpecBcp == InitBcp /\ [][NextBcp]_vars

(***************************************************************************)
(* add_bft_to_business_line of integrate_bft_contacts.  SpecPlan: main     *)
(* has made bft_content; a plan is built section by section, in the order  *)
(* of its dict, and the function is called on it.                          *)
(***************************************************************************)
\* variant: the last section that matches is taken
RECURSIVE FindLastBftKey(_, _)
FindLastBftKey(sections, n) ==
    LET m == Len(sections) + 1 - n
    IN  IF n > Len(sections) THEN 0
        ELSE IF Contains(Lower(sections[m].key), "bft")
                \/ Contains(Lower(Get(sections[m], "title", "")),
                            "business function")
             THEN m
        ELSE FindLastBftKey(sections, n + 1)

\* the loop that looks for bft_section_key: the index of the first section
\* that matches, from the n-th on, 0 for None
RECURSIVE FindBftKey(_, _)
FindBftKey(sections, n) ==
    IF n > Len(sections) THEN 0
    ELSE IF Contains(Lower(sections[n].key), "bft")
            \/ Contains(Lower(Get(sections[n], "title", "")),
                        "business function")
         THEN n
    ELSE FindBftKey(sections, n + 1)

\* the plan after the call and the value returned
add_bft_to_business_line(plan_data, bft_contacts_content) ==
    LET n == FindBftKey(Get(plan_data, "sections", <<>>), 1)
    IN  IF n # 0
        THEN [plan_data |-> [plan_data EXCEPT !.sections[n].content =
                                                bft_contacts_content],
              returned |-> TRUE]
        ELSE [plan_data |-> plan_data, returned |-> FALSE]

ScopeSection ==
    [key |-> "scope", title |-> "Scope", type |-> "general",
     content |-> <<ScopeItem>>]
KeyedSection ==
    [key |-> "BFT_contacts", title |-> "Contacts", type |-> "contacts",
     content |-> <<GenericItem>>]
TitledSection ==
    [key |-> "section_ii", title |-> "Business Function Team",
     content |-> <<ScopeItem, GenericItem>>]
BothSection ==
    [key |-> "bft", title |-> BftTitle, type |-> "general", content |-> <<>>]

SectionPool == {ScopeSection, KeyedSection, TitledSection, BothSection}

\* what create_bft_contacts_section returns for one and for two contacts
BftContents ==
    { <<[type |-> "contacts", title |-> "Business Function Team Members",
         content |-> contacts]>> :
        contacts \in {<<AmyContact>>, <<AmyContact, BobContact>>} }

MaxSections == 3

\* one more section in the dict of the plan, under a key it does not hold
AddSection ==
    /\ pc = "plan"
    /\ Len(plan.sections) < MaxSections
    /\ \E section \in SectionPool :
          /\ \A n \in 1..Len(plan.sections) : plan.sections[n].key # section.key
          /\ plan' = [plan EXCEPT !.sections = Append(@, section)]
    /\ UNCHANGED <<text, nameResult, table, pc, isContact, out, calls,
                   doc, structure, all_tables, bft_sections, analysis,
                   bcp_data, results, runs, bft_content, returned>>

CallAddBftToBusinessLine ==
    /\ pc = "plan"
    /\ LET call == add_bft_to_business_line(plan, bft_content)
       IN  /\ plan' = call.plan_data
           /\ returned' = call.returned
    /\ pc' = "added"
    /\ UNCHANGED <<text, nameResult, table, isContact, out, calls,
                   doc, structure, all_tables, bft_sections, analysis,
                   bcp_data, results, runs, bft_content>>

InitPlan ==
    /\ text = ""
    /\ nameResult = "none"
    /\ table = <<>>
    /\ pc = "plan"
    /\ isContact = "none"
    /\ out = NoOutcome
    /\ calls = <<>>
    /\ doc = <<>>
    /\ structure = <<>>
    /\ all_tables = <<>>
    /\ bft_sections = <<>>
    /\ plan = [title |-> "Plan", sections |-> <<>>]
    /\ analysis = <<>>
    /\ bcp_data = <<>>
    /\ results = <<>>
    /\ runs = 0
    /\ bft_content \in BftContents
    /\ returned = "none"

NextPlan ==
    \/ AddSection
    \/ CallAddBftToBusinessLine

SpecPlan == InitPlan /\ [][NextPlan]_vars

(***************************************************************************)
(* analyze_table_content of tac_table_analyzer.  SpecScore: a table_info   *)
(* as extract_all_tables_with_context returns it grows row by row and is   *)
(* analysed.                                                               *)
(***************************************************************************)
\* the alternatives of phone_pattern
tac_phone_patterns ==
    << \* \b\d{3}[-.\s]?\d{3}[-.\s]?\d{4}\b
       << WordBoundary, Digits(3), OptSep, Digits(3), OptSep, Digits(4),
          WordBoundary >>,
       \* \(\d{3}\)\s?\d{3}[-.\s]?\d{4}
       << Lit("("), Digits(3), Lit(")"), Cls(WhitespaceChars, 0, 1), Digits(3),
          OptSep, Digits(4) >>,
       \* \+\d+
       << Lit("+"), Cls(DigitChars, 1, Unbounded) >> >>

\* re.search(pat, s)
Search(pat, s) == FindAll(pat, s) # <<>>

contact_indicators ==
    <<"name", "title", "phone", "mobile", "email", "contact">>
name_excludes == <<"section", "team", "department", "function", "title">>
title_indicators ==
    <<"manager", "director", "lead", "coordinator", "specialist", "engineer",
      "analyst">>

\* any(word in s for word in words)
AnyIn(words, s) == \E k \in 1..Len(words) : Contains(s, words[k])

\* str.islower(): a cased character, and no uppercase one
IsLower(s) ==
    /\ \E i \in 1..Len(s) : Ch(s, i) \in LowerChars
    /\ \A i \in 1..Len(s) : Ch(s, i) \notin UpperChars

MinProbableWords == 2
MaxProbableWords == 4

\* the test of the loop over the cells for a probable name
IsProbableName(cell) ==
    LET words == Split(Strip(cell))
    IN  /\ Len(words) >= MinProbableWords
        /\ Len(words) <= MaxProbableWords
        /\ \A k \in 1..Len(words) :
              Len(words[k]) > 1 =>
                  /\ Ch(words[k], 1) \in UpperChars
                  /\ IsLower(SubSeq(words[k], 2, Len(words[k])))
        /\ ~AnyIn(name_excludes, Lower(cell))

\* the points of the indicators
HeadersPoints == 2
NamesPoints == 2
PhonesPoints == 2
EmailsPoints == 1
TitlesPoints == 1
TypePoints == 1

MinContactScore == 3    \* contact_score >= 3

\* the best score: every indicator is found
MaxContactScore ==
    HeadersPoints + NamesPoints + PhonesPoints + EmailsPoints + TitlesPoints
    + TypePoints

\* the denominator of the report 'Contact Score: {contact_score}/7'
ReportedMaxScore == 7

analyze_table_content(table_info) ==
    LET table_data == table_info.data
        context_lower == Lower(table_info.context)
        likely_contact_type ==
            IF Contains(context_lower, "bft")
               \/ Contains(context_lower, "business function") THEN "BFT"
            ELSE IF Contains(context_lower, "cft")
                    \/ Contains(context_lower, "cross functional") THEN "CFT"
            ELSE "None"
        all_text == Lower(Join([r \in 1..Len(table_data) |->
                                   Join(table_data[r], " ")], " "))
        has_contact_headers == AnyIn(contact_indicators, all_text)
        has_phone_numbers ==
            \E k \in 1..Len(tac_phone_patterns) :
                Search(tac_phone_patterns[k], all_text)
        has_emails == Search(email_pattern, all_text)
        has_names ==
            \E r \in 1..Len(table_data) : \E i \in 1..Len(table_data[r]) :
                IsProbableName(table_data[r][i])
        has_titles == AnyIn(title_indicators, all_text)
        contact_score ==
            (IF has_contact_headers THEN HeadersPoints ELSE 0)
            + (IF has_names THEN NamesPoints ELSE 0)
            + (IF has_phone_numbers THEN PhonesPoints ELSE 0)
            + (IF has_emails THEN EmailsPoints ELSE 0)
            + (IF has_titles THEN TitlesPoints ELSE 0)
            + (IF likely_contact_type # "None" THEN TypePoints ELSE 0)
    IN  [is_contact_table |-> contact_score >= MinContactScore,
         has_contact_headers |-> has_contact_headers,
         has_names |-> has_names,
         has_phone_numbers |-> has_phone_numbers,
         has_emails |-> has_emails,
         has_titles |-> has_titles,
         likely_contact_type |-> likely_contact_type,
         contact_score |-> contact_score]

ServerRow == <<"srv-01", "rack 4">>
OfficeRow == <<"Jane Smith", "", "Main Office">>
DialRow == <<"help desk", "+4420", "(555) 123-4567">>

ScoreRows == {HeaderRow, JaneRow, EmailRow, ServerRow, OfficeRow, DialRow}

ScoreContexts ==
    {UnknownSection, "Business Function Team (BFT)", "Cross Functional Teams"}

MaxScoreRows == 3

\* one more row in the table of the table_info
GrowTable ==
    /\ pc = "tables"
    /\ Len(all_tables[1].data) < MaxScoreRows
    /\ \E row \in ScoreRows :
          all_tables' = [all_tables EXCEPT
                            ![1].data = Append(@, row),
                            ![1].row_count = @ + 1]
    /\ UNCHANGED <<text, nameResult, table, pc, isContact, out, calls,
                   doc, structure, bft_sections, plan, analysis,
                   bcp_data, results, runs, bft_content, returned>>

CallAnalyzeTableContent ==
    /\ pc = "tables"
    /\ analysis' = analyze_table_content(all_tables[1])
    /\ pc' = "analysed"
    /\ UNCHANGED <<text, nameResult, table, isContact, out, calls,
                   doc, structure, all_tables, bft_sections, plan,
                   bcp_data, results, runs, bft_content, returned>>

InitScore ==
    /\ text = ""
    /\ nameResult = "none"
    /\ table = <<>>
    /\ pc = "tables"
    /\ isContact = "none"
    /\ out = NoOutcome
    /\ calls = <<>>
    /\ doc = <<>>
    /\ structure = <<>>
    /\ \E row \in ScoreRows, context \in ScoreContexts :
          all_tables = <<[data |-> <<row>>, context |-> context,
                          row_count |-> 1, col_count |-> Len(row)]>>
    /\ bft_sections = <<>>
    /\ plan = <<>>
    /\ analysis = <<>>
    /\ bcp_data = <<>>
    /\ results = <<>>
    /\ runs = 0
    /\ bft_content = <<>>
    /\ returned = "none"

NextScore ==
    \/ GrowTable
    \/ CallAnalyzeTableContent

SpecScore == InitScore /\ [][NextScore]_vars

\* the 0-based indices of the rows the loop over table_data[start_row:] keeps
KeptRows(table_data, headers, start_row) ==
    { r \in start_row..(Len(table_data) - 1) :
        /\ ~IsBlankRow(table_data[r + 1])
        /\ Len(table_data[r + 1]) > 0
        /\ is_person_name(Strip(table_data[r + 1][1]))
        /\ HasValidName(BuildContact(headers, table_data[r + 1])) }

(***************************************************************************)
(* C1: every record extract_contact_table returns has a name that is not   *)
(* empty and that is_person_name accepts.                                  *)
(***************************************************************************)
C1_RecordNamesValid ==
    \A k \in 1..Len(out.contacts) :
        /\ out.contacts[k].name # ""
        /\ is_person_name(out.contacts[k].name)

\* records were returned from a table with a user-name column, where the name
\* a row ends with is not the one it starts with
C1_Witness ==
    /\ pc = "extracted"
    /\ Len(out.contacts) >= 1
    /\ \E r \in 1..Len(table) : table[r] = UserHeaderRow

(***************************************************************************)
(* C5: for a table of fewer than 2 rows (also of no row) is_contact_table  *)
(* returns FALSE and extract_contact_table returns the empty list, without *)
(* raising.                                                                *)
(***************************************************************************)
C5_ShortTableRejected ==
    Len(table) < 2 =>
        /\ pc \in {"classified", "extracted"} => isContact = FALSE
        /\ pc = "extracted" =>
              /\ out.called
              /\ ~out.raised
              /\ out.contacts = <<>>

\* both calls have returned for a table that is a single header row
C5_Witness ==
    /\ pc = "extracted"
    /\ table = <<HeaderRow>>

\* ... and for the table of no row
C5_WitnessEmpty ==
    /\ pc = "extracted"
    /\ table = <<>>

(***************************************************************************)
(* C6: when is_contact_table(table) is FALSE, extract_contact_table(table) *)
(* returns no record, whatever the rows hold.                              *)
(***************************************************************************)
C6_RejectedTableYieldsNothing ==
    (pc = "extracted" /\ isContact = FALSE) => out.contacts = <<>>

\* a rejected table that has a header row and a row of a person
C6_Witness ==
    /\ pc = "extracted"
    /\ isContact = FALSE
    /\ table = <<HeaderRow, JaneRow, UserHeaderRow>>
    /\ RowHasHeader(table[1], contact_headers)
    /\ ~SkipsRow(table[2])

(***************************************************************************)
(* C7 (Scenario A): for [[Name, Title, Phone], [Jane Smith, Team Lead,     *)
(* 555-123-4567], [Robert Jones, Analyst, 555-987-6543]] is_contact_table  *)
(* is TRUE and extract_contact_table returns exactly two records in row    *)
(* order, each with the name, the title and the one phone number of its    *)
(* row, and with no mobile and no email.                                   *)
(***************************************************************************)
C7_ScenarioA ==
    table = ScenarioA =>
        /\ pc \in {"classified", "extracted"} => isContact = TRUE
        /\ pc = "extracted" =>
              /\ ~out.raised
              /\ Len(out.contacts) = 2
              /\ out.contacts[1].name = "Jane Smith"
              /\ out.contacts[1].title = "Team Lead"
              /\ out.contacts[1].phone = <<"555-123-4567">>
              /\ out.contacts[1].mobile = <<>>
              /\ out.contacts[1].email = <<>>
              /\ out.contacts[2].name = "Robert Jones"
              /\ out.contacts[2].title = "Analyst"
              /\ out.contacts[2].phone = <<"555-987-6543">>
              /\ out.contacts[2].mobile = <<>>
              /\ out.contacts[2].email = <<>>

C7_Witness ==
    /\ pc = "extracted"
    /\ table = ScenarioA

(***************************************************************************)
(* C10, as stated: a data row (a row after the header row) whose first     *)
(* cell fails is_person_name, or whose cells are all blank, is the source  *)
(* of no record.                                                           *)
(***************************************************************************)
C10_AsStated ==
    (pc = "extracted" /\ out.scanned) =>
        \A r \in out.start_row..(Len(table) - 1) :
            (IsBlankRow(table[r + 1]) \/ ~is_person_name(table[r + 1][1]))
                => \A k \in 1..Len(out.rows) : out.rows[k] # r

(***************************************************************************)
(* C10, amended: a data row whose first cell, trimmed of surrounding       *)
(* whitespace, fails is_person_name, or whose cells are all blank, is the  *)
(* source of no record, whatever its other cells hold; and the records     *)
(* returned are those of the other data rows, each built from its own row  *)
(* and the headers alone, in row order.                                    *)
(***************************************************************************)
C10_SkippedRowsYieldNothing ==
    (pc = "extracted" /\ out.scanned) =>
        /\ \A r \in out.start_row..(Len(table) - 1) :
              (\/ IsBlankRow(table[r + 1])
               \/ Len(table[r + 1]) = 0
               \/ ~is_person_name(Strip(table[r + 1][1])))
                 => \A k \in 1..Len(out.rows) : out.rows[k] # r
        /\ Len(out.rows) = Len(out.contacts)
        /\ \A k \in 1..Len(out.rows) :
              /\ out.rows[k] \in KeptRows(table, out.headers, out.start_row)
              /\ out.contacts[k] = BuildContact(out.headers, table[out.rows[k] + 1])
              /\ k > 1 => out.rows[k - 1] < out.rows[k]
        /\ Cardinality(KeptRows(table, out.headers, out.start_row)) = Len(out.rows)

\* a procedure row with a phone number, an address and a person's name in
\* its other cells lies between two rows that each gave a record
C10_Witness ==
    /\ pc = "extracted"
    /\ table = <<UserHeaderRow, JaneRow, ProcedureRow, JaneRow>>
    /\ out.scanned
    /\ out.rows = <<1, 3>>

(***************************************************************************)
(* C2, as stated: is_contact_table returns TRUE exactly when one of the    *)
(* first 3 rows, joined and lowercased, holds one of the eight header      *)
(* words, and at least 2 of the rows at indices 1..5 have a first cell     *)
(* that is_person_name accepts.                                            *)
(***************************************************************************)
EightHeaderWords ==
    {"name", "title", "phone", "mobile", "email", "contact", "role", "team member"}

HoldsHeaderWord(row) ==
    LET lowered == Lower(Join(row, " "))
    IN  \E w \in EightHeaderWords : Contains(lowered, w)

HeaderInFirstThree(t) ==
    \E r \in 1..Len(t) : r <= 3 /\ HoldsHeaderWord(t[r])

C2_AsStated ==
    pc = "classified" =>
        (isContact = TRUE <=>
            /\ HeaderInFirstThree(table)
            /\ Cardinality({ r \in 1..5 : /\ r + 1 <= Len(table)
                                          /\ Len(table[r + 1]) > 0
                                          /\ is_person_name(table[r + 1][1]) }) >= 2)

(***************************************************************************)
(* C2, amended: is_contact_table returns TRUE exactly when one of the      *)
(* first 3 rows, joined and lowercased, holds one of the eight header      *)
(* words, and at least 2 of the rows at indices 1..5 have a first cell     *)
(* that, trimmed of surrounding whitespace, is_person_name accepts.        *)
(***************************************************************************)
C2_DualGate ==
    pc = "classified" =>
        (isContact = TRUE <=>
            /\ HeaderInFirstThree(table)
            /\ Cardinality({ r \in 1..5 : /\ r + 1 <= Len(table)
                                          /\ Len(table[r + 1]) > 0
                                          /\ is_person_name(Strip(table[r + 1][1])) }) >= 2)

\* a table rejected with a header and two persons, the second of them in the
\* row at index 6
C2_Witness ==
    /\ pc = "classified"
    /\ isContact = FALSE
    /\ table = <<HeaderRow, JaneRow, HeaderRow, HeaderRow, HeaderRow, HeaderRow, JaneRow>>

(***************************************************************************)
(* C3: is_person_name(text) is TRUE exactly when the length is 2..50, the  *)
(* lowercased text holds none of the non-person words, every character is  *)
(* a letter, whitespace, '.', '-' or an apostrophe, one letter is          *)
(* uppercase, and the text splits into 2..4 tokens of 2..20 characters;    *)
(* hence a text with a digit, an underscore or a non-person word is        *)
(* rejected.                                                               *)
(***************************************************************************)
HoldsNonPersonWord(t) ==
    LET lowered == Lower(t)
    IN  \E k \in 1..Len(non_person_words) : Contains(lowered, non_person_words[k])

NameRule(t) ==
    LET tokens == Split(t) IN
    /\ Len(t) >= 2
    /\ Len(t) <= 50
    /\ ~HoldsNonPersonWord(t)
    /\ \A i \in 1..Len(t) :
          Ch(t, i) \in UpperChars \cup LowerChars \cup WhitespaceChars \cup {".", "-", "'"}
    /\ \E i \in 1..Len(t) : Ch(t, i) \in UpperChars
    /\ Len(tokens) \in 2..4
    /\ \A k \in 1..Len(tokens) : Len(tokens[k]) \in 2..20

C3_NameRule ==
    pc = "named" =>
        /\ nameResult = NameRule(text)
        /\ (\/ \E i \in 1..Len(text) : Ch(text, i) \in DigitChars \cup {"_"}
            \/ HoldsNonPersonWord(text)) => nameResult = FALSE

\* a name of four tokens was accepted
C3_Witness ==
    /\ pc = "named"
    /\ nameResult = TRUE
    /\ Len(Split(text)) = 4

(***************************************************************************)
(* C4, as stated: is_person_name accepts every string of 2 to 4 alphabetic *)
(* tokens of 2 to 20 characters, separated by one space, that holds no     *)
(* non-person word and has an uppercase letter.                            *)
(***************************************************************************)
IsTokenString(t) ==
    LET ws == Split(t) IN
    /\ t = Join(ws, " ")
    /\ Len(ws) \in 2..4
    /\ \A k \in 1..Len(ws) :
          /\ Len(ws[k]) \in 2..20
          /\ \A i \in 1..Len(ws[k]) : Ch(ws[k], i) \in UpperChars \cup LowerChars

C4_AsStated ==
    (/\ pc = "named"
     /\ IsTokenString(text)
     /\ ~HoldsNonPersonWord(text)
     /\ \E i \in 1..Len(text) : Ch(text, i) \in UpperChars) => nameResult = TRUE

(***************************************************************************)
(* C4, amended: is_person_name accepts every such string that is at most   *)
(* 50 characters long.                                                     *)
(***************************************************************************)
C4_TokenStringsAccepted ==
    (/\ pc = "named"
     /\ IsTokenString(text)
     /\ Len(text) <= 50
     /\ ~HoldsNonPersonWord(text)
     /\ \E i \in 1..Len(text) : Ch(text, i) \in UpperChars) => nameResult = TRUE

\* a string of four tokens and exactly 50 characters was accepted
C4_Witness ==
    /\ pc = "named"
    /\ text = "Abcdefghijklmnopqrst Abcdefghijklmnopqrst Al jonas"
    /\ Len(text) = 50
    /\ nameResult = TRUE

(***************************************************************************)
(* C8: the row extract_contact_table takes for the header row is the       *)
(* lowest-indexed row among rows 0..2 that holds one of the eight header   *)
(* words of is_contact_table; no row at index 3 or later is taken.         *)
(***************************************************************************)
C8_HeaderRowAsStated ==
    (pc = "extracted" /\ out.scanned) =>
        /\ out.header_row_index \in 0..2
        /\ out.header_row_index + 1 <= Len(table)
        /\ HoldsHeaderWord(table[out.header_row_index + 1])
        /\ \A r \in 0..(out.header_row_index - 1) : ~HoldsHeaderWord(table[r + 1])

(***************************************************************************)
(* C9, as stated: when extract_contact_table finds no header row, the      *)
(* headers are name, title, contact_info, field_3, field_4, ... for the    *)
(* cells of row 0, whatever their number, and row 0 is a data row.         *)
(***************************************************************************)
PositionalHeaders(n) ==
    [i \in 1..n |-> CASE i = 1 -> "name"
                      [] i = 2 -> "title"
                      [] i = 3 -> "contact_info"
                      [] OTHER -> "field_" \o DigitStr[i]]

C9_AsStated ==
    (pc = "extracted" /\ out.scanned /\ out.header_row_index = -1) =>
        /\ out.headers = PositionalHeaders(Len(table[1]))
        /\ out.start_row = 0

(***************************************************************************)
(* C9, amended: when extract_contact_table finds no header row, row 0 is   *)
(* a data row; the headers are name, title, contact_info, field_3,         *)
(* field_4, ... when row 0 has at least 3 cells, and when it has fewer     *)
(* there are no headers and no record is returned.                         *)
(***************************************************************************)
C9_InferredHeaders ==
    (pc = "extracted" /\ out.scanned /\ out.header_row_index = -1) =>
        /\ out.start_row = 0
        /\ Len(table[1]) >= 3 =>
              /\ out.headers = PositionalHeaders(Len(table[1]))
              /\ ~SkipsRow(table[1]) => (out.rows # <<>> /\ out.rows[1] = 0)
        /\ Len(table[1]) < 3 =>
              /\ out.headers = <<>>
              /\ out.contacts = <<>>

\* no header row was found in a table whose row 0 has five cells, and row 0
\* gave the first record
C9_Witness ==
    /\ pc = "extracted"
    /\ out.scanned
    /\ out.header_row_index = -1
    /\ table = <<WideRoleRow, AmyRow, AmyRow>>
    /\ out.headers = <<"name", "title", "contact_info", "field_3", "field_4">>
    /\ out.rows = <<0, 1, 2>>

ScenarioCRow == <<"John Doe", "Coordinator", "", JohnAddress>>

(***************************************************************************)
(* C11: under the headers name, title, phone, email the row John Doe,      *)
(* Coordinator, blank, john.doe@example.com gives a record with an empty   *)
(* phone list and with that one address as its email list.  For every      *)
(* record: a blank cell leaves the record as it was, and it still takes    *)
(* up its column, the loop passing one column per cell of the row.         *)
(***************************************************************************)
C11_BlankCellKeepsColumns ==
    pc = "extracted" =>
        /\ Len(out.steps) = Len(out.contacts)
        /\ \A k \in 1..Len(out.contacts) :
              LET row == table[out.rows[k] + 1]
                  steps == out.steps[k]
                  contact == out.contacts[k]
              IN  /\ Len(steps) = 1 + Min(Len(row), Len(out.headers))
                  /\ contact = steps[Len(steps)]
                  /\ \A i \in 1..(Len(steps) - 1) :
                        Strip(row[i]) = "" => steps[i + 1] = steps[i]
                  /\ (out.headers = <<"name", "title", "phone", "email">>
                        /\ row = ScenarioCRow)
                     => /\ contact.name = "John Doe"
                        /\ contact.title = "Coordinator"
                        /\ contact.phone = <<>>
                        /\ contact.mobile = <<>>
                        /\ contact.email = <<JohnAddress>>

C11_Witness ==
    /\ pc = "extracted"
    /\ table = <<PhoneEmailHeader, JaneRow, ScenarioCRow>>
    /\ GrownAt # 0
    /\ out.contacts[GrownAt].email = <<JohnAddress>>
    /\ out.contacts[GrownAt].phone = <<>>

(***************************************************************************)
(* C12: the records come in the order of their rows.  Every record is      *)
(* built from a row of the table after the header row (from any row when   *)
(* there is no header row), it carries that row as raw_data, and the row   *)
(* of a record lies before the row of the next record, so that no row      *)
(* gives two records and the header row and the rows before it give none.  *)
(***************************************************************************)
C12_RecordsInRowOrder ==
    (pc = "extracted" /\ out.scanned) =>
        /\ Len(out.rows) = Len(out.contacts)
        /\ \A k \in 1..Len(out.rows) :
              /\ out.rows[k] > out.header_row_index
              /\ out.rows[k] >= 0
              /\ out.rows[k] < Len(table)
              /\ out.contacts[k].raw_data = table[out.rows[k] + 1]
              /\ k > 1 => out.rows[k - 1] < out.rows[k]

\* a person's row before the header row and two after it
C12_Witness ==
    /\ pc = "extracted"
    /\ table = <<AmyRow, HeaderRow, AmyRow, EmailRow>>
    /\ out.header_row_index = 1
    /\ out.rows = <<2, 3>>

C14_NeverRaises ==
    /\ pc # "input" => isContact \in BOOLEAN
    /\ out.called =>
          /\ ~out.raised
          /\ \A k \in 1..Len(out.contacts) :
                DOMAIN out.contacts[k] = DOMAIN NewContact(<<>>)

\* the table has a row of no cell, a row longer than the header row and no
\* row that the header search of extract_contact_table takes as header row
C14_Witness ==
    /\ pc = "extracted"
    /\ table = <<WideRoleRow, NoCellRow, JohnOnlyRow, JaneRow>>
    /\ isContact = TRUE
    /\ out.called
    /\ out.header_row_index = -1
    /\ Len(out.contacts) = 3

\* no string is twice in the list
NoRepeat(list) ==
    \A i, j \in 1..Len(list) : list[i] = list[j] => i = j

(***************************************************************************)
(* C15, as stated: in every record returned no string is more than once    *)
(* in the phone list, in the mobile list or in the email list.             *)
(***************************************************************************)
C15_ListsAreSets ==
    pc = "extracted" =>
        \A k \in 1..Len(out.contacts) :
            /\ NoRepeat(out.contacts[k].phone)
            /\ NoRepeat(out.contacts[k].mobile)
            /\ NoRepeat(out.contacts[k].email)

(***************************************************************************)
(* The passes of the loop over the cells that the records returned went    *)
(* through: <<k, i>> is the pass of record k over the cell at the 0-based  *)
(* index i of its row.                                                     *)
(***************************************************************************)
CellPasses ==
    UNION { { <<k, i>> : i \in 0..(Len(out.steps[k]) - 2) } :
            k \in 1..Len(out.steps) }

\* the cell of a pass trimmed, its header, the record before and after it
PassCell(p) == Strip(table[out.rows[p[1]] + 1][p[2] + 1])
PassHeader(p) == out.headers[p[2] + 1]
PassBefore(p) == out.steps[p[1]][p[2] + 1]
PassAfter(p) == out.steps[p[1]][p[2] + 2]
PassIsLast(p) == p[2] = Len(table[out.rows[p[1]] + 1]) - 1

\* the records differ in the fields named at most
SameBut(before, after, fields) ==
    \A f \in (DOMAIN before) \ fields : after[f] = before[f]

\* the field of the first rule that matches, in the order of the rules
CellField(i, header) ==
    IF i = 0 \/ Contains(header, "name") THEN "name"
    ELSE IF i = 1 \/ Contains(header, "title") \/ Contains(header, "role")
        THEN "title"
    ELSE IF Contains(header, "phone") /\ ~Contains(header, "mobile") THEN "phone"
    ELSE IF Contains(header, "mobile") \/ Contains(header, "cell") THEN "mobile"
    ELSE IF Contains(header, "location") \/ Contains(header, "site")
        THEN "location"
    ELSE IF Contains(header, "description") \/ Contains(header, "notes")
        THEN "description"
    ELSE IF Contains(header, "email") THEN "email"
    ELSE "other"

(***************************************************************************)
(* C16, as stated: the cell at index 1 is stored as title whatever its     *)
(* header says, and it is not stored under phone, mobile or email.         *)
(***************************************************************************)
C16_AsStated ==
    pc = "extracted" =>
        \A p \in CellPasses :
            (p[2] = 1 /\ PassCell(p) # "") =>
                /\ PassAfter(p).title = PassCell(p)
                /\ PassAfter(p).phone = PassBefore(p).phone
                /\ PassAfter(p).mobile = PassBefore(p).mobile
                /\ PassAfter(p).email = PassBefore(p).email

(***************************************************************************)
(* C16, amended: a cell that is not blank goes to the field of the first   *)
(* rule that matches, in the order name, title, phone, mobile, location,   *)
(* description, email; it becomes the name, title, location or             *)
(* description when that is its field, and it changes no other field but   *)
(* email, to which the addresses found in it are added whatever its field  *)
(* is.  The cell at index 1 whose header does not hold "name" is stored    *)
(* as title whatever else its header says, and not under phone or mobile.  *)
(***************************************************************************)
C16_FirstRuleDecides ==
    pc = "extracted" =>
        \A p \in CellPasses :
            PassCell(p) # "" =>
                LET cell == PassCell(p)
                    before == PassBefore(p)
                    after == PassAfter(p)
                    field == CellField(p[2], PassHeader(p))
                IN  /\ field = "name" => after.name = cell
                    /\ field = "title" => after.title = cell
                    /\ field = "location" => after.location = cell
                    /\ field = "description" => after.description = cell
                    /\ field # "other" => SameBut(before, after, {field, "email"})
                    /\ field = "other" =>
                          SameBut(before, after,
                                  {"phone", "mobile", "email", "location",
                                   "description"})
                    /\ field \notin {"email", "other"} =>
                          after.email = before.email \o FindEmails(cell)
                    /\ (p[2] = 1 /\ ~Contains(PassHeader(p), "name")) =>
                          /\ after.title = cell
                          /\ after.name = before.name
                          /\ after.phone = before.phone
                          /\ after.mobile = before.mobile

\* a phone number at index 1 under the header "phone" became the title
C16_Witness ==
    /\ pc = "extracted"
    /\ table = <<MobileHeader, JaneRow, <<"John Doe", "555-123-4567">>>>
    /\ GrownAt # 0
    /\ out.contacts[GrownAt].title = "555-123-4567"
    /\ out.contacts[GrownAt].phone = <<>>

\* what a cell under a phone or mobile header adds to the list of its field:
\* the matches of the phone patterns, else the cell itself when it holds no
\* address and is longer than 5 characters, else nothing
NumbersAdded(cell) ==
    IF FindPhones(cell) # <<>> THEN FindPhones(cell)
    ELSE IF FindEmails(cell) = <<>> /\ Len(cell) > 5 THEN <<cell>>
    ELSE <<>>

\* a cell the name rule and the title rule leave to the rules after them
PastNameAndTitle(p) ==
    /\ PassCell(p) # ""
    /\ p[2] >= 2
    /\ ~Contains(PassHeader(p), "name")
    /\ ~Contains(PassHeader(p), "title")
    /\ ~Contains(PassHeader(p), "role")

(***************************************************************************)
(* C17, as stated: a cell at index 2 or more under a header with "phone"   *)
(* and without "mobile" adds NumbersAdded to phone, and a cell under a     *)
(* header with "mobile" or "cell" adds NumbersAdded to mobile.             *)
(***************************************************************************)
C17_AsStated ==
    pc = "extracted" =>
        \A p \in CellPasses :
            PastNameAndTitle(p) =>
                /\ (Contains(PassHeader(p), "phone")
                      /\ ~Contains(PassHeader(p), "mobile"))
                   => PassAfter(p).phone
                          = PassBefore(p).phone \o NumbersAdded(PassCell(p))
                /\ (Contains(PassHeader(p), "mobile")
                      \/ Contains(PassHeader(p), "cell"))
                   => PassAfter(p).mobile
                          = PassBefore(p).mobile \o NumbersAdded(PassCell(p))

(***************************************************************************)
(* C17, amended: a cell at index 2 or more under a header with "phone"     *)
(* and without "mobile" adds NumbersAdded to phone and leaves mobile as it *)
(* was; a cell under a header with "mobile", or with "cell" and without    *)
(* "phone", adds NumbersAdded to mobile and leaves phone as it was.        *)
(***************************************************************************)
C17_HeaderNumbers ==
    pc = "extracted" =>
        \A p \in CellPasses :
            PastNameAndTitle(p) =>
                /\ (Contains(PassHeader(p), "phone")
                      /\ ~Contains(PassHeader(p), "mobile"))
                   => /\ PassAfter(p).phone
                            = PassBefore(p).phone \o NumbersAdded(PassCell(p))
                      /\ PassAfter(p).mobile = PassBefore(p).mobile
                /\ (Contains(PassHeader(p), "mobile")
                      \/ (Contains(PassHeader(p), "cell")
                            /\ ~Contains(PassHeader(p), "phone")))
                   => /\ PassAfter(p).mobile
                            = PassBefore(p).mobile \o NumbersAdded(PassCell(p))
                      /\ PassAfter(p).phone = PassBefore(p).phone

\* under "mobile" a cell of 6 characters with no number was stored as it is,
\* under "cell phone" a number went to phone
C17_Witness ==
    /\ pc = "extracted"
    /\ table = <<MobileHeader, JaneRow,
                 <<"John Doe", "Coordinator", "ext 42", "555-123-4567">>>>
    /\ GrownAt # 0
    /\ out.contacts[GrownAt].mobile = <<"ext 42">>
    /\ out.contacts[GrownAt].phone = <<"555-123-4567">>

\* a cell under a header that no rule of the mapping names
NoRuleNames(p) ==
    /\ PassCell(p) # ""
    /\ CellField(p[2], PassHeader(p)) = "other"

\* such a cell in which a phone pattern matches and no email pattern does
NumberUnderOtherHeader(p) ==
    /\ NoRuleNames(p)
    /\ FindEmails(PassCell(p)) = <<>>
    /\ FindPhones(PassCell(p)) # <<>>

(***************************************************************************)
(* C18, as stated: the matches of such a cell are appended to phone when   *)
(* the phone list of the record is empty and to mobile when it has an      *)
(* entry, and nothing else decides.                                        *)
(***************************************************************************)
C18_AsStated ==
    pc = "extracted" =>
        \A p \in CellPasses :
            NumberUnderOtherHeader(p) =>
                IF PassBefore(p).phone = <<>>
                THEN /\ PassAfter(p).phone = FindPhones(PassCell(p))
                     /\ PassAfter(p).mobile = PassBefore(p).mobile
                ELSE /\ PassAfter(p).mobile
                           = PassBefore(p).mobile \o FindPhones(PassCell(p))
                     /\ PassAfter(p).phone = PassBefore(p).phone

(***************************************************************************)
(* C18, amended: the matches of such a cell are appended to mobile when    *)
(* the cell, lowercased, holds the word "mobile" or the phone list of the  *)
(* record has an entry, and to phone otherwise; the other list stays as    *)
(* it was.                                                                 *)
(***************************************************************************)
C18_PhoneOrMobile ==
    pc = "extracted" =>
        \A p \in CellPasses :
            NumberUnderOtherHeader(p) =>
                IF Contains(Lower(PassCell(p)), "mobile")
                     \/ PassBefore(p).phone # <<>>
                THEN /\ PassAfter(p).mobile
                           = PassBefore(p).mobile \o FindPhones(PassCell(p))
                     /\ PassAfter(p).phone = PassBefore(p).phone
                ELSE /\ PassAfter(p).phone = FindPhones(PassCell(p))
                     /\ PassAfter(p).mobile = PassBefore(p).mobile

\* the first number went to phone, the second to mobile
C18_Witness ==
    /\ pc = "extracted"
    /\ table = <<InfoHeader, JaneRow,
                 <<"John Doe", "Coordinator", "555-123-4567", "555-123-4567">>>>
    /\ GrownAt # 0
    /\ out.contacts[GrownAt].phone = <<"555-123-4567">>
    /\ out.contacts[GrownAt].mobile = <<"555-123-4567">>

\* a cell under a header that no rule names, in which neither an email
\* pattern nor a phone pattern matches
TextUnderOtherHeader(p) ==
    /\ NoRuleNames(p)
    /\ FindEmails(PassCell(p)) = <<>>
    /\ FindPhones(PassCell(p)) = <<>>

\* the cell, lowercased, holds one of office, building, floor, room
TellsLocation(cell) ==
    LET cell_lower == Lower(cell)
    IN  \E w \in {"office", "building", "floor", "room"} : Contains(cell_lower, w)

(***************************************************************************)
(* C19, as stated: such a cell that is the last of its row and longer      *)
(* than 10 characters is stored as location when it holds one of the four  *)
(* words and as description otherwise, and changes nothing else; a cell    *)
(* that is not the last or is 10 characters or shorter changes nothing.    *)
(***************************************************************************)
C19_AsStated ==
    pc = "extracted" =>
        \A p \in CellPasses :
            TextUnderOtherHeader(p) =>
                IF PassIsLast(p) /\ Len(PassCell(p)) > 10
                THEN IF TellsLocation(PassCell(p))
                     THEN PassAfter(p) = [PassBefore(p) EXCEPT !.location = PassCell(p)]
                     ELSE PassAfter(p) = [PassBefore(p) EXCEPT !.description = PassCell(p)]
                ELSE PassAfter(p) = PassBefore(p)

(***************************************************************************)
(* C19, amended: such a cell that is the last of its row and longer than   *)
(* 10 characters is stored as location when it holds one of the four       *)
(* words and the record has no location yet; else it is stored as          *)
(* description when the record has no description yet; else it changes     *)
(* nothing.  A cell that is not the last or is 10 characters or shorter    *)
(* changes nothing.                                                        *)
(***************************************************************************)
C19_LastCellText ==
    pc = "extracted" =>
        \A p \in CellPasses :
            TextUnderOtherHeader(p) =>
                IF PassIsLast(p) /\ Len(PassCell(p)) > 10
                THEN IF TellsLocation(PassCell(p)) /\ PassBefore(p).location = ""
                     THEN PassAfter(p) = [PassBefore(p) EXCEPT !.location = PassCell(p)]
                     ELSE IF PassBefore(p).description = ""
                     THEN PassAfter(p) = [PassBefore(p) EXCEPT !.description = PassCell(p)]
                     ELSE PassAfter(p) = PassBefore(p)
                ELSE PassAfter(p) = PassBefore(p)

\* the record had a location when its last cell, which names an office,
\* was read: the cell became the description
C19_Witness ==
    /\ pc = "extracted"
    /\ table = <<LocationHeader, JaneRow,
                 <<"John Doe", "Coordinator", "Night shift",
                   "Main Office, Floor 3">>>>
    /\ GrownAt # 0
    /\ out.contacts[GrownAt].location = "Night shift"
    /\ out.contacts[GrownAt].description = "Main Office, Floor 3"

(***************************************************************************)
(* C20: when calls of extract_contact_table run side by side, their steps  *)
(* interleaved in any order, a step of a call changes the frame of that    *)
(* call alone, and a call that has returned has got from                   *)
(* is_contact_table and returns itself what the functions give for its    *)
(* table when they run alone.                                              *)
(***************************************************************************)
C20_CallsIndependent ==
    [][ /\ \E w \in Workers : \A v \in Workers \ {w} : calls'[v] = calls[v]
        /\ \A w \in Workers :
              /\ calls'[w].table_data = calls[w].table_data
              /\ calls'[w].pc = "done" =>
                    /\ calls'[w].is_contact = is_contact_table(calls[w].table_data)
                    /\ calls'[w].returned
                          = extract_contact_table(calls[w].table_data).contacts
      ]_vars

\* two calls with different tables have returned, each after steps taken
\* while the other was inside its loop
C20_Witness ==
    /\ pc = "calls"
    /\ calls[1].table_data = ScenarioA
    /\ calls[2].table_data = <<UserHeaderRow, JaneRow, ProcedureRow, JaneRow>>
    /\ \A w \in Workers : calls[w].pc = "done" /\ calls[w].overlapped
    /\ Len(calls[1].returned) = 2
    /\ Len(calls[2].returned) = 2

(***************************************************************************)
(* Documents: the heading that precedes a table.                           *)
(***************************************************************************)
\* the positions in the document of its tables, in order
TablePositions(blocks) ==
    SelectSeq([i \in 1..Len(blocks) |-> i], LAMBDA i : blocks[i].kind = "tbl")

\* a paragraph that extract_fixed_document_structure takes for a heading
IsFixedHeading(b) ==
    b.kind = "p" /\ Strip(b.text) # "" /\ is_heading(Strip(b.text), b.style)

\* a paragraph that extract_all_tables_with_context takes for a heading
IsTacHeading(b) ==
    /\ b.kind = "p"
    /\ \E k \in 1..Len(tac_keywords) :
          Contains(Upper(Strip(b.text)), tac_keywords[k])

\* a paragraph that extract_bft_cft_from_document takes for a heading
IsBftHeading(b) ==
    /\ b.kind = "p"
    /\ \E k \in 1..Len(bft_words) :
          Contains(Lower(clean_text(b.text)), bft_words[k])

\* the position of the last heading before position p, 0 when there is none
LastHeadingBefore(blocks, p, IsHeading(_)) ==
    LET hs == { i \in 1..(p - 1) : IsHeading(blocks[i]) }
    IN  IF hs = {} THEN 0 ELSE CHOOSE i \in hs : \A j \in hs : j <= i

\* the position of the last heading of the document, 0 when there is none
LastHeading(blocks, IsHeading(_)) ==
    LastHeadingBefore(blocks, Len(blocks) + 1, IsHeading)

\* the section key that the most recent heading before position p gives
FixedContextAt(blocks, p) ==
    LET h == LastHeadingBefore(blocks, p, IsFixedHeading)
    IN  IF h = 0 THEN NoSectionKey ELSE SectionKey(Strip(blocks[h].text))

TacContextAt(blocks, p) ==
    LET h == LastHeadingBefore(blocks, p, IsTacHeading)
    IN  IF h = 0 THEN UnknownSection ELSE Strip(blocks[h].text)

BftContextAt(blocks, p) ==
    LET h == LastHeadingBefore(blocks, p, IsBftHeading)
    IN  IF h = 0 THEN "" ELSE clean_text(blocks[h].text)

(***************************************************************************)
(* C21: when a scan of a document classifies a table or routes its records *)
(* to a section, the section context in effect is the most recent heading  *)
(* that precedes the table in document order, in each of the three         *)
(* scanners.  Fails: extract_fixed_document_structure and                  *)
(* extract_bft_cft_from_document read every paragraph before the first     *)
(* table, so the context at every table is the last heading of the         *)
(* document.                                                               *)
(***************************************************************************)
C21_ContextIsPrecedingHeading ==
    LET at == TablePositions(doc)
    IN  /\ pc = "structure" =>
              \A k \in 1..Len(at) :
                  structure.context[k] = FixedContextAt(doc, at[k])
        /\ pc = "all_tables" =>
              \A k \in 1..Len(at) :
                  all_tables[k].context = TacContextAt(doc, at[k])
        /\ pc = "bft_sections" =>
              \A k \in 1..Len(at) :
                  bft_sections[k] = BftContextAt(doc, at[k])

\* what holds of the three scanners: the walk in document order of
\* extract_all_tables_with_context gives the preceding heading
C21_TacContext ==
    pc = "all_tables" =>
        \A k \in 1..Len(TablePositions(doc)) :
            all_tables[k].context = TacContextAt(doc, TablePositions(doc)[k])

\* and the two others give the last heading of the document
C21_LastHeadingOfDocument ==
    LET at == TablePositions(doc)
    IN  /\ pc = "structure" =>
              \A k \in 1..Len(at) :
                  structure.context[k] = FixedContextAt(doc, Len(doc) + 1)
        /\ pc = "bft_sections" =>
              \A k \in 1..Len(at) :
                  bft_sections[k] = BftContextAt(doc, Len(doc) + 1)

\* the positions of the paragraphs that are text of the section with the
\* key: not blank, no heading, and the most recent heading before them has
\* the key
TextPositions(blocks, key) ==
    SelectSeq([i \in 1..Len(blocks) |-> i],
              LAMBDA i : /\ blocks[i].kind = "p"
                         /\ Strip(blocks[i].text) # ""
                         /\ ~IsFixedHeading(blocks[i])
                         /\ LastHeadingBefore(blocks, i, IsFixedHeading) # 0
                         /\ FixedContextAt(blocks, i) = key)

\* the text items that the paragraphs under the headings with the key give
ExpectedContent(blocks, key) ==
    LET at == TextPositions(blocks, key)
    IN  [n \in 1..Len(at) |->
            [type |-> "text", content |-> Strip(blocks[at[n]].text)]]

\* the keys of the headings of the document
HeadingKeys(blocks) ==
    { SectionKey(Strip(blocks[i].text)) :
        i \in { j \in 1..Len(blocks) : IsFixedHeading(blocks[j]) } }

(***************************************************************************)
(* C26: after the pass over the paragraphs, every paragraph that is not    *)
(* blank, is no heading and follows some heading stands exactly once, in   *)
(* document order, in the content of the section keyed by its most recent  *)
(* heading, also when two headings give the same key.  Fails: the section  *)
(* of the later heading replaces the section of the earlier one.           *)
(***************************************************************************)
C26_ParagraphsKept ==
    pc = "structure" =>
        \A key \in HeadingKeys(doc) :
            ExpectedContent(doc, key) # <<>> =>
                /\ key \in DOMAIN structure.paragraph_sections
                /\ structure.paragraph_sections[key].content
                      = ExpectedContent(doc, key)

\* what holds: the paragraphs are kept when the headings of the document
\* that have text below them give different keys
C26_KeptUnderDistinctKeys ==
    pc = "structure" =>
        LET hs == { i \in 1..Len(doc) :
                      /\ IsFixedHeading(doc[i])
                      /\ i < Len(doc)
                      /\ \E j \in (i + 1)..Len(doc) :
                            /\ doc[j].kind = "p" /\ ~IsFixedHeading(doc[j])
                            /\ LastHeadingBefore(doc, j, IsFixedHeading) = i }
        IN  (\A i, j \in hs : i # j =>
                SectionKey(Strip(doc[i].text)) # SectionKey(Strip(doc[j].text)))
            => \A key \in HeadingKeys(doc) :
                  ExpectedContent(doc, key) # <<>> =>
                      /\ key \in DOMAIN structure.paragraph_sections
                      /\ structure.paragraph_sections[key].content
                            = ExpectedContent(doc, key)

\* the list has the items of part, in order, side by side
HasRun(list, part) ==
    \E n \in 0..(Len(list) - Len(part)) :
        SubSeq(list, n + 1, n + Len(part)) = part

\* the list starts with the items of part
StartsWith(list, part) ==
    Len(part) <= Len(list) /\ SubSeq(list, 1, Len(part)) = part

\* the number of records in the contents of the sections with the keys
RECURSIVE RecordsIn(_, _)
RecordsIn(sections, keys) ==
    IF keys = {} THEN 0
    ELSE LET key == CHOOSE k \in keys : TRUE
         IN  Len(SelectSeq(sections[key].content,
                           LAMBDA item : item.type = "team_member"))
             + RecordsIn(sections, keys \ {key})

\* the number of records that the tables from the k-th on gave
RECURSIVE RecordsOf(_, _)
RecordsOf(lists, k) ==
    IF k > Len(lists) THEN 0 ELSE Len(lists[k]) + RecordsOf(lists, k + 1)

(***************************************************************************)
(* C27: in extract_fixed_document_structure, the records of every          *)
(* accepted table end up in the content of one section of the result, that *)
(* section has type 'contacts', and adding the records of a table never    *)
(* removes content that an earlier paragraph or table put into a section.  *)
(* Fails: a table without a target section takes the key                   *)
(* team_contacts_<number of sections>, and a section that has that key is  *)
(* replaced.                                                               *)
(***************************************************************************)
C27_ContactsPlacedContentKept ==
    pc = "structure" =>
        /\ \A k \in 1..Len(structure.contacts) :
              structure.contacts[k] # <<>> =>
                  /\ structure.placed[k] \in DOMAIN structure.sections
                  /\ structure.sections[structure.placed[k]].type = "contacts"
                  /\ HasRun(structure.sections[structure.placed[k]].content,
                            structure.contacts[k])
        /\ RecordsIn(structure.sections, DOMAIN structure.sections)
              = RecordsOf(structure.contacts, 1)
        /\ \A key \in DOMAIN structure.paragraph_sections :
              /\ key \in DOMAIN structure.sections
              /\ StartsWith(structure.sections[key].content,
                            structure.paragraph_sections[key].content)

\* what holds: the records are placed and nothing is removed when no
\* heading of the document gives a key that starts with team_contacts_
C27_KeptWithoutKeyClash ==
    (\A key \in HeadingKeys(doc) :
        ~(Len(key) >= 14 /\ SubSeq(key, 1, 14) = "team_contacts_"))
    => C27_ContactsPlacedContentKept

\* the fields that hold one cell, and the two lists of numbers
OneCellFields ==
    {"name", "title", "phone", "mobile", "location", "description"}

(***************************************************************************)
(* C22, as stated: a cell changes at most the one field it resolves to; a  *)
(* cell resolved to name, title, phone, mobile, location or description    *)
(* adds nothing to email, even when its text holds an address.             *)
(***************************************************************************)
C22_AsStated ==
    pc = "extracted" =>
        \A p \in CellPasses :
            LET field == CellField(p[2], PassHeader(p))
            IN  (PassCell(p) # "" /\ field \in OneCellFields) =>
                    /\ SameBut(PassBefore(p), PassAfter(p), {field})
                    /\ PassAfter(p).email = PassBefore(p).email

(***************************************************************************)
(* C22, amended: a cell resolved to name, title, phone, mobile, location   *)
(* or description changes that field and email at most; the addresses      *)
(* found in its text are added to email, and a cell without an address     *)
(* changes its field alone.                                                *)
(***************************************************************************)
C22_FieldAndAddresses ==
    pc = "extracted" =>
        \A p \in CellPasses :
            LET field == CellField(p[2], PassHeader(p))
                found == FindEmails(PassCell(p))
            IN  (PassCell(p) # "" /\ field \in OneCellFields) =>
                    /\ SameBut(PassBefore(p), PassAfter(p), {field, "email"})
                    /\ PassAfter(p).email = PassBefore(p).email \o found
                    /\ found = <<>> =>
                          SameBut(PassBefore(p), PassAfter(p), {field})

\* an address at index 1 became the title and was added to email, and
\* the same address under the header "location" became the location and
\* was added once more
C22_Witness ==
    /\ pc = "extracted"
    /\ table = <<LocationHeader, JaneRow,
                 <<"John Doe", JohnAddress, JohnAddress>>>>
    /\ GrownAt # 0
    /\ out.contacts[GrownAt].title = JohnAddress
    /\ out.contacts[GrownAt].location = JohnAddress
    /\ out.contacts[GrownAt].email = <<JohnAddress, JohnAddress>>

\* the 0-based indices of the rows that is_contact_table counted as
\* person rows
CountedRows ==
    { r - 1 : r \in { q \in 2..Min(PersonScanEnd, Len(table)) :
                        /\ Len(table[q]) > 0
                        /\ is_person_name(Strip(table[q][1])) } }

(***************************************************************************)
(* C23: whenever is_contact_table(table) is true, extract_contact_table    *)
(* returns at least 2 records: every row that counted as a person row in   *)
(* the acceptance test also yields a record.  Fails: the header search of  *)
(* extract_contact_table may take a row after the counted rows, or the     *)
(* row of a person, as the header row.                                     *)
(***************************************************************************)
C23_AcceptedGivesRecords ==
    (pc = "extracted" /\ isContact = TRUE) =>
        /\ Len(out.contacts) >= MinPersons
        /\ \A r \in CountedRows : \E k \in 1..Len(out.rows) : out.rows[k] = r

\* what holds: a counted row after the header row that the search of
\* extract_contact_table found yields a record when the headers leave its
\* first cell as the name
C23_CountedRowsAfterHeader ==
    (pc = "extracted" /\ isContact = TRUE) =>
        \A r \in CountedRows :
            (/\ r >= out.start_row
             /\ out.headers # <<>>
             /\ \A i \in 1..(Min(Len(out.headers), Len(table[r + 1])) - 1) :
                   ~Contains(out.headers[i + 1], "name"))
            => \E k \in 1..Len(out.rows) : out.rows[k] = r

\* the 0-based indices of the cells of a row that the name rule takes: not
\* blank, within the headers, at index 0 or under a header with "name"
NameCellsOf(row, headers) ==
    { i \in 0..(Min(Len(row), Len(headers)) - 1) :
        /\ Strip(row[i + 1]) # ""
        /\ (i = 0 \/ Contains(headers[i + 1], "name")) }

\* the last of them
LastNameCell(row, headers) ==
    CHOOSE i \in NameCellsOf(row, headers) :
        \A j \in NameCellsOf(row, headers) : j <= i

(***************************************************************************)
(* C24, as stated: the name of every record returned equals the trimmed    *)
(* first cell of the row the record was built from, whatever the headers   *)
(* of the other columns are.                                               *)
(***************************************************************************)
C24_AsStated ==
    pc = "extracted" =>
        \A k \in 1..Len(out.contacts) :
            out.contacts[k].name = Strip(table[out.rows[k] + 1][1])

(***************************************************************************)
(* C24, amended: the name of every record returned equals the trimmed      *)
(* text of the last cell of its row that is not blank and stands at index  *)
(* 0 or under a header that contains "name"; it is the trimmed first cell  *)
(* when no other column of the row has such a header and a cell that is    *)
(* not blank.                                                              *)
(***************************************************************************)
C24_LastNameCellIsName ==
    pc = "extracted" =>
        \A k \in 1..Len(out.contacts) :
            LET row == table[out.rows[k] + 1]
            IN  /\ NameCellsOf(row, out.headers) # {}
                /\ out.contacts[k].name
                      = Strip(row[LastNameCell(row, out.headers) + 1])
                /\ NameCellsOf(row, out.headers) = {0} =>
                      out.contacts[k].name = Strip(row[1])

\* the row of John Doe with "Jack Doe" under the header "nickname" gave a
\* record with the name Jack Doe
C24_Witness ==
    /\ pc = "extracted"
    /\ table[1] = NicknameHeader
    /\ Len(table[3]) >= 2
    /\ table[3][1] = "John Doe"
    /\ table[3][2] = "Jack Doe"
    /\ GrownAt # 0
    /\ out.contacts[GrownAt].name = "Jack Doe"

\* the string is one match of the e-mail pattern, from end to end
IsAddress(entry) == FindEmails(entry) = <<entry>>

(***************************************************************************)
(* C25, as stated: every entry in the email list of a returned record      *)
(* matches the e-mail pattern; text that is no address is never stored in  *)
(* email.                                                                  *)
(***************************************************************************)
C25_AsStated ==
    pc = "extracted" =>
        \A k \in 1..Len(out.contacts) :
            \A n \in 1..Len(out.contacts[k].email) :
                IsAddress(out.contacts[k].email[n])

(***************************************************************************)
(* C25, amended: a cell that the rules resolve to email and in which no    *)
(* address is found is stored in email as it is, trimmed; every other      *)
(* entry that a cell adds to email is a match of the e-mail pattern.  So   *)
(* every entry of a returned record is an address or the whole text of     *)
(* such a cell of its row.                                                 *)
(***************************************************************************)
C25_AddressOrEmailCell ==
    pc = "extracted" =>
        /\ \A p \in CellPasses :
              LET cell == PassCell(p)
                  before == PassBefore(p).email
                  after == PassAfter(p).email
                  raw == /\ cell # ""
                         /\ CellField(p[2], PassHeader(p)) = "email"
                         /\ FindEmails(cell) = <<>>
              IN  /\ raw => after = Append(before, cell)
                  /\ ~raw =>
                        /\ Len(after) >= Len(before)
                        /\ SubSeq(after, 1, Len(before)) = before
                        /\ \A n \in (Len(before) + 1)..Len(after) :
                              IsAddress(after[n])
        /\ \A k \in 1..Len(out.contacts) :
              \A n \in 1..Len(out.contacts[k].email) :
                  \/ IsAddress(out.contacts[k].email[n])
                  \/ \E p \in CellPasses :
                        /\ p[1] = k
                        /\ CellField(p[2], PassHeader(p)) = "email"
                        /\ PassCell(p) = out.contacts[k].email[n]

\* "ext 42" under the header "email" is the one entry of email
C25_Witness ==
    /\ pc = "extracted"
    /\ table = <<PhoneEmailHeader, JaneRow,
                 <<"John Doe", "Coordinator", "", "ext 42">>>>
    /\ GrownAt # 0
    /\ out.contacts[GrownAt].email = <<"ext 42">>

\* the number of subsections "Business Function Team (BFT)" in the section
\* for the team of the plan of a line
BftSubsections(line_id) ==
    LET sections == bcp_data[line_id].sections
        n == FindBftSection(sections, 1)
    IN  Len(SelectSeq(sections[n].content,
                      LAMBDA item : /\ Get(item, "type", "") = "subsection"
                                    /\ Get(item, "title", "") = BftTitle))

(***************************************************************************)
(* C28: create_structured_bcp_data is idempotent on its own output: when   *)
(* it has run, and when it has run again on the data that the earlier run  *)
(* returned, with the same extracted contacts, the section for the team    *)
(* of each line with contacts holds exactly one subsection "Business       *)
(* Function Team (BFT)".  Fails: the second run adds a second one.         *)
(***************************************************************************)
C28_OneSubsectionAfterRerun ==
    (pc = "bcp" /\ runs >= 1) =>
        \A line_id \in DOMAIN results :
            results[line_id].contacts # <<>> => BftSubsections(line_id) = 1

\* what holds: every run adds one subsection and removes none
C28_OneSubsectionPerRun ==
    (pc = "bcp" /\ runs >= 1) =>
        \A line_id \in DOMAIN results :
            results[line_id].contacts # <<>> => BftSubsections(line_id) = runs

\* the section matches: its key contains "bft" or its title contains
\* "business function", whatever the case of the letters
MatchesBft(section) ==
    \/ Contains(Lower(section.key), "bft")
    \/ Contains(Lower(Get(section, "title", "")), "business function")

\* the indices of the sections of the plan that match
BftMatches == { n \in 1..Len(plan.sections) : MatchesBft(plan.sections[n]) }

C30_ScoreWithinReport ==
    pc = "analysed" =>
        /\ analysis.contact_score >= 0
        /\ analysis.contact_score <= ReportedMaxScore
        /\ analysis.is_contact_table <=> analysis.contact_score >= 3

\* what holds: the score is between 0 and 9, and the table is a contact
\* table exactly from 3 on
C30_ScoreWithinPoints ==
    pc = "analysed" =>
        /\ analysis.contact_score \in 0..MaxContactScore
        /\ analysis.is_contact_table <=> analysis.contact_score >= 3
=============================================================================
